---- MODULE Spec2Model ----
(***************************************************************************)
(* BrightDayBot: birthday scheduling and announcement pipeline.            *)
(*   - date arithmetic of utils/date_utils.py                              *)
(*   - message composition of utils/message_generator.py                   *)
(*   - per-day announcement ledger of utils/storage.py                     *)
(*   - the daily scheduler run of services/birthday.py                     *)
(***************************************************************************)
EXTENDS Integers, Sequences, FiniteSets, TLC

(***************************************************************************)
(* Bounds of the model.                                                    *)
(***************************************************************************)
\* first and last year of the reference dates of the date-arithmetic spec;
\* the window holds leap years, plain years and the non-leap century year 2100
RefYearFirst == 2095
RefYearLast == 2101

\* number of calendar days the scheduler model runs through, from 2096-02-28
\* on (28 February, then 29 February of a leap year)
MaxDays == 2

\* number of daily() runs in one behaviour
MaxRuns == 2

(***************************************************************************)
(* Gregorian calendar, as datetime() of the Python standard library.       *)
(***************************************************************************)
\* a missing user id
None == "None"

\* a missing birth year (None; the code tests if birth_year:)
NoYear == 0

\* a missing birth date string
NoDate == <<>>

IsLeap(y) == (y % 4 = 0 /\ y % 100 # 0) \/ (y % 400 = 0)

DaysInMonth(y, m) ==
    IF m = 2 THEN (IF IsLeap(y) THEN 29 ELSE 28)
    ELSE IF m \in {4, 6, 9, 11} THEN 30 ELSE 31

\* datetime(y, m, d) succeeds; otherwise it raises ValueError
ValidDate(y, m, d) == m \in 1..12 /\ d >= 1 /\ d <= DaysInMonth(y, m)

DaysBeforeYear(y) == 365 * (y - 1) + ((y - 1) \div 4) - ((y - 1) \div 100) + ((y - 1) \div 400)

RECURSIVE DaysBeforeMonth(_, _)
DaysBeforeMonth(y, m) == IF m <= 1 THEN 0 ELSE DaysBeforeMonth(y, m - 1) + DaysInMonth(y, m - 1)

\* date.toordinal(): the day number of a date
Ordinal(dt) == DaysBeforeYear(dt.year) + DaysBeforeMonth(dt.year, dt.month) + dt.day

Date(y, m, d) == [year |-> y, month |-> m, day |-> d]

(***************************************************************************)
(* Date strings "DD/MM": five characters, two digits, a slash, two digits. *)
(***************************************************************************)
Digits == <<"0", "1", "2", "3", "4", "5", "6", "7", "8", "9">>

DigitChar(n) == Digits[n + 1]

DigitVal(c) == CHOOSE n \in 0..9 : Digits[n + 1] = c

\* strftime(DATE_FORMAT) with DATE_FORMAT = "%d/%m"
FormatDate(d, m) ==
    <<DigitChar(d \div 10), DigitChar(d % 10), "/", DigitChar(m \div 10), DigitChar(m % 10)>>

\* day, month = map(int, date_str.split("/"))
SplitDate(date_str) ==
    [day   |-> 10 * DigitVal(date_str[1]) + DigitVal(date_str[2]),
     month |-> 10 * DigitVal(date_str[4]) + DigitVal(date_str[5])]

\* datetime.strptime(date, "%d/%m") parses against the default year 1900,
\* which is not a leap year: it raises ValueError for "29/02"
StrptimeRaises(date_str) ==
    ~ValidDate(1900, SplitDate(date_str).month, SplitDate(date_str).day)

(***************************************************************************)
(* utils/date_utils.py                                                     *)
(***************************************************************************)
check_if_birthday_today_dayonly(date_str, reference_date) ==
    SplitDate(date_str).day = reference_date.day

check_if_birthday_today(date_str, reference_date) ==
    /\ SplitDate(date_str).day = reference_date.day
    /\ SplitDate(date_str).month = reference_date.month

\* the while True loop: the first year from next_year on in which the date
\* exists, with the number of candidate years it examined
RECURSIVE RollForward(_, _, _, _)
RollForward(next_year, month, day, examined) ==
    IF ValidDate(next_year, month, day)
    THEN [year |-> next_year, examined |-> examined + 1]
    ELSE RollForward(next_year + 1, month, day, examined + 1)

\* a loop that starts at the reference year instead of the year after it
RollForwardDays_from_this_year(month, day, ref) ==
    LET r == RollForward(ref.year, month, day, 0)
    IN  [raised |-> FALSE,
         days |-> Ordinal(Date(r.year, month, day)) - Ordinal(ref),
         examined |-> r.examined]

\* the except-branch: days to the next valid occurrence after this year
RollForwardDays(month, day, ref) ==
    LET r == RollForward(ref.year + 1, month, day, 0)
    IN  [raised |-> FALSE,
         days |-> Ordinal(Date(r.year, month, day)) - Ordinal(ref),
         examined |-> r.examined]

\* the second datetime() of the try-block raising without being caught
NextYearUncaught(month, day, ref) ==
    IF ValidDate(ref.year + 1, month, day)
    THEN [raised |-> FALSE,
          days |-> Ordinal(Date(ref.year + 1, month, day)) - Ordinal(ref),
          examined |-> 0]
    ELSE [raised |-> TRUE, days |-> -1, examined |-> 0]

\* birthday_date < reference_date: next years date, built inside the try
NextYearBirthday(month, day, ref) ==
    IF ValidDate(ref.year + 1, month, day)
    THEN [raised |-> FALSE,
          days |-> Ordinal(Date(ref.year + 1, month, day)) - Ordinal(ref),
          examined |-> 0]
    ELSE RollForwardDays(month, day, ref)

calculate_days_until_birthday_sameyear(date_str, reference_date) ==
    LET day == SplitDate(date_str).day
        month == SplitDate(date_str).month
        ref == reference_date
    IN  IF ValidDate(ref.year, month, day)
        THEN [raised |-> FALSE,
              days |-> Ordinal(Date(ref.year, month, day)) - Ordinal(ref),
              examined |-> 0]
        ELSE RollForwardDays(month, day, ref)

calculate_days_until_birthday(date_str, reference_date) ==
    LET day == SplitDate(date_str).day
        month == SplitDate(date_str).month
        ref == reference_date
    IN  IF ValidDate(ref.year, month, day)
        THEN IF Ordinal(Date(ref.year, month, day)) < Ordinal(ref)
             THEN NextYearBirthday(month, day, ref)
             ELSE [raised |-> FALSE,
                   days |-> Ordinal(Date(ref.year, month, day)) - Ordinal(ref),
                   examined |-> 0]
        ELSE RollForwardDays(month, day, ref)

(***************************************************************************)
(* Text: a sequence of symbols.  The characters the formatting rules look  *)
(* at are one symbol each; a run of other characters (a word, a user id,   *)
(* an emoji code) is one symbol.                                           *)
(***************************************************************************)
NL == "\n"

\* the backquote character of a code block
BT == "backquote"

Whitespace == {" ", NL}

Min(S) == CHOOSE x \in S : \A y \in S : x <= y

\* text[i:j], 1-based and inclusive; empty when j < i
Slice(t, i, j) == IF j < i THEN <<>> ELSE SubSeq(t, i, j)

\* text.startswith(lit, i)
StartsWith(t, i, lit) ==
    /\ i >= 1
    /\ i + Len(lit) - 1 <= Len(t)
    /\ \A k \in 1..Len(lit) : t[i + k - 1] = lit[k]

\* lit in text
Contains(t, lit) == \E i \in 1..(Len(t) + 1) : StartsWith(t, i, lit)

\* str.replace(old, new) for a one-symbol placeholder
RECURSIVE Replace(_, _, _)
Replace(t, old, new) ==
    IF t = <<>> THEN <<>>
    ELSE (IF Head(t) = old THEN new ELSE <<Head(t)>>) \o Replace(Tail(t), old, new)

RECURSIVE Join(_, _)
Join(parts, sep) ==
    IF parts = <<>> THEN <<>>
    ELSE IF Len(parts) = 1 THEN parts[1]
    ELSE parts[1] \o sep \o Join(Tail(parts), sep)

\* the end of a lazy group (.*?) that starts at from and is followed by
\* the literal lit: the first position of lit, 0 when there is none;
\* without DOTALL the group cannot cross a newline
FirstClose(t, from, lit, dotall) ==
    LET S == {j \in from..Len(t) :
                 /\ StartsWith(t, j, lit)
                 /\ dotall \/ \A k \in from..(j - 1) : t[k] # NL}
    IN  IF S = {} THEN 0 ELSE Min(S)

\* ^ with re.MULTILINE
AtLineStart(t, i) == i = 1 \/ t[i - 1] = NL

\* the first position at or after i that is not matched by a greedy run
RECURSIVE SkipRun(_, _, _)
SkipRun(t, i, chars) ==
    IF i <= Len(t) /\ t[i] \in chars THEN SkipRun(t, i + 1, chars) ELSE i

\* (.*?)$ with re.MULTILINE from p: the end of the line
LineEnd(t, p) ==
    LET S == {e \in p..Len(t) : t[e] = NL}
    IN  IF S = {} THEN Len(t) + 1 ELSE Min(S)

NoMatch == [end |-> 0, repl |-> <<>>]

\* OPEN(.*?)CLOSE replaced by ropen \1 rclose
MatchDelimited(t, i, open, close, ropen, rclose, dotall) ==
    IF ~StartsWith(t, i, open) THEN NoMatch
    ELSE LET j == FirstClose(t, i + Len(open), close, dotall)
         IN  IF j = 0 THEN NoMatch
             ELSE [end |-> j + Len(close),
                   repl |-> ropen \o Slice(t, i + Len(open), j - 1) \o rclose]

\* r"\[(.*?)\]\((.*?)\)" replaced by r"<\2|\1>"
MatchLink(t, i) ==
    IF ~StartsWith(t, i, <<"[">>) THEN NoMatch
    ELSE LET S == {j \in (i + 1)..Len(t) :
                      /\ StartsWith(t, j, <<"]", "(">>)
                      /\ \A k \in (i + 1)..(j - 1) : t[k] # NL
                      /\ FirstClose(t, j + 2, <<")">>, FALSE) # 0}
         IN  IF S = {} THEN NoMatch
             ELSE LET j == Min(S)
                      k == FirstClose(t, j + 2, <<")">>, FALSE)
                  IN  [end |-> k + 1,
                       repl |-> <<"<">> \o Slice(t, j + 2, k - 1) \o <<"|">>
                                \o Slice(t, i + 1, j - 1) \o <<">">>]

\* r"^(#{1,6})\s+(.*?)$" (MULTILINE) replaced by r"*\2*"
MatchHeader(t, i) ==
    IF ~(AtLineStart(t, i) /\ StartsWith(t, i, <<"#">>)) THEN NoMatch
    ELSE LET h == SkipRun(t, i, {"#"})
             p == SkipRun(t, h, Whitespace)
         IN  IF h - i > 6 \/ p = h THEN NoMatch
             ELSE [end |-> LineEnd(t, p),
                   repl |-> <<"*">> \o Slice(t, p, LineEnd(t, p) - 1) \o <<"*">>]

\* r"<(?![@!#])(.*?)>" replaced by r"\1"
MatchTag(t, i) ==
    IF ~StartsWith(t, i, <<"<">>) THEN NoMatch
    ELSE IF i + 1 <= Len(t) /\ t[i + 1] \in {"@", "!", "#"} THEN NoMatch
    ELSE MatchDelimited(t, i, <<"<">>, <<">">>, <<>>, <<>>, FALSE)

\* r"^>\s+(.*?)$" (MULTILINE) replaced by r">>>\1"
MatchQuote(t, i) ==
    IF ~(AtLineStart(t, i) /\ StartsWith(t, i, <<">">>)) THEN NoMatch
    ELSE LET p == SkipRun(t, i + 1, Whitespace)
         IN  IF p = i + 1 THEN NoMatch
             ELSE [end |-> LineEnd(t, p),
                   repl |-> <<">", ">", ">">> \o Slice(t, p, LineEnd(t, p) - 1)]

\* the seven substitutions of fix_slack_formatting, in the order of the code
MatchAt(rule, t, i) ==
    CASE rule = 1 -> MatchDelimited(t, i, <<"*", "*">>, <<"*", "*">>, <<"*">>, <<"*">>, FALSE)
      [] rule = 2 -> MatchDelimited(t, i, <<"_", "_">>, <<"_", "_">>, <<"_">>, <<"_">>, FALSE)
      [] rule = 3 -> MatchLink(t, i)
      [] rule = 4 -> MatchHeader(t, i)
      [] rule = 5 -> MatchTag(t, i)
      [] rule = 6 -> MatchDelimited(t, i, <<BT, BT, BT>>, <<BT, BT, BT>>, <<BT>>, <<BT>>, TRUE)
      [] rule = 7 -> MatchQuote(t, i)

\* re.sub: leftmost matches, left to right, without rescanning a replacement
\* (the match at i is bound once, as the element of a one-element set)
RECURSIVE ReSub(_, _, _)
ReSub(rule, t, i) ==
    IF i > Len(t) THEN <<>>
    ELSE CHOOSE r \in { IF m.end # 0
                        THEN m.repl \o ReSub(rule, t, m.end)
                        ELSE <<t[i]>> \o ReSub(rule, t, i + 1) : m \in {MatchAt(rule, t, i)} } : TRUE

\* the substitutions from rule on, each applied to the result of the one before
RECURSIVE ApplyRules(_, _)
ApplyRules(rule, text) ==
    IF rule > 7 THEN text
    ELSE CHOOSE r \in { ApplyRules(rule + 1, t) : t \in {ReSub(rule, text, 1)} } : TRUE

fix_slack_formatting(text) == ApplyRules(1, text)

(***************************************************************************)
(* utils/slack_utils.py and utils/message_generator.py                     *)
(***************************************************************************)
\* default of the max_retries parameter of completion()
DefaultMaxRetries == 2

\* largest max_retries the composer is called with in the model
MaxRetriesBound == 2

get_user_mention(user_id) ==
    IF user_id # None THEN <<"<", "@", user_id, ">">> ELSE <<"Unknown User">>

ChannelToken == <<"<", "!", "channel", ">">>

\* the table with Pisces starting one day late
get_star_sign_pisces_from_20(date_str) ==
    LET day == SplitDate(date_str).day
        month == SplitDate(date_str).month
    IN  IF (month = 1 /\ day >= 20) \/ (month = 2 /\ day <= 18) THEN "Aquarius"
        ELSE IF (month = 2 /\ day >= 20) \/ (month = 3 /\ day <= 20) THEN "Pisces"
        ELSE IF (month = 3 /\ day >= 21) \/ (month = 4 /\ day <= 19) THEN "Aries"
        ELSE IF (month = 4 /\ day >= 20) \/ (month = 5 /\ day <= 20) THEN "Taurus"
        ELSE IF (month = 5 /\ day >= 21) \/ (month = 6 /\ day <= 20) THEN "Gemini"
        ELSE IF (month = 6 /\ day >= 21) \/ (month = 7 /\ day <= 22) THEN "Cancer"
        ELSE IF (month = 7 /\ day >= 23) \/ (month = 8 /\ day <= 22) THEN "Leo"
        ELSE IF (month = 8 /\ day >= 23) \/ (month = 9 /\ day <= 22) THEN "Virgo"
        ELSE IF (month = 9 /\ day >= 23) \/ (month = 10 /\ day <= 22) THEN "Libra"
        ELSE IF (month = 10 /\ day >= 23) \/ (month = 11 /\ day <= 21) THEN "Scorpio"
        ELSE IF (month = 11 /\ day >= 22) \/ (month = 12 /\ day <= 21) THEN "Sagittarius"
        ELSE "Capricorn"

get_star_sign(date_str) ==
    LET day == SplitDate(date_str).day
        month == SplitDate(date_str).month
    IN  IF (month = 1 /\ day >= 20) \/ (month = 2 /\ day <= 18) THEN "Aquarius"
        ELSE IF (month = 2 /\ day >= 19) \/ (month = 3 /\ day <= 20) THEN "Pisces"
        ELSE IF (month = 3 /\ day >= 21) \/ (month = 4 /\ day <= 19) THEN "Aries"
        ELSE IF (month = 4 /\ day >= 20) \/ (month = 5 /\ day <= 20) THEN "Taurus"
        ELSE IF (month = 5 /\ day >= 21) \/ (month = 6 /\ day <= 20) THEN "Gemini"
        ELSE IF (month = 6 /\ day >= 21) \/ (month = 7 /\ day <= 22) THEN "Cancer"
        ELSE IF (month = 7 /\ day >= 23) \/ (month = 8 /\ day <= 22) THEN "Leo"
        ELSE IF (month = 8 /\ day >= 23) \/ (month = 9 /\ day <= 22) THEN "Virgo"
        ELSE IF (month = 9 /\ day >= 23) \/ (month = 10 /\ day <= 22) THEN "Libra"
        ELSE IF (month = 10 /\ day >= 23) \/ (month = 11 /\ day <= 21) THEN "Scorpio"
        ELSE IF (month = 11 /\ day >= 22) \/ (month = 12 /\ day <= 21) THEN "Sagittarius"
        ELSE "Capricorn"

MonthNames == <<"January", "February", "March", "April", "May", "June", "July",
                "August", "September", "October", "November", "December">>

\* the keys of AGE_FACTS, in the order of the dict
AgeFactKeys == <<20, 21, 25, 30, 35, 40, 45, 50, 55, 60, 65, 70, 75, 80, 90, 100>>

Abs(n) == IF n < 0 THEN -n ELSE n

\* min(age_keys, key=lambda x: abs(x - age)): the first key at minimal distance
ClosestAgeKey(age) ==
    LET best == Min({Abs(AgeFactKeys[i] - age) : i \in 1..Len(AgeFactKeys)})
        first == Min({i \in 1..Len(AgeFactKeys) : Abs(AgeFactKeys[i] - age) = best})
    IN  AgeFactKeys[first]

\* the age fact of create_birthday_announcement, empty when there is none
AgeFact(age) ==
    IF \E i \in 1..Len(AgeFactKeys) : AgeFactKeys[i] = age THEN <<"age fact", ToString(age)>>
    ELSE IF age > 0 /\ Abs(ClosestAgeKey(age) - age) <= 3
         THEN <<"age fact", ToString(ClosestAgeKey(age))>>
         ELSE <<>>

\* BIRTHDAY_INTROS: only the fourth holds the broadcast token
BIRTHDAY_INTROS ==
    << <<":birthday:", "ATTENTION WONDERFUL HUMANS!", ":tada:">>,
       <<":loudspeaker:", "SPECIAL ANNOUNCEMENT FOR EVERYONE!", ":loudspeaker:">>,
       <<":rotating_light:", "BIRTHDAY ALERT! BIRTHDAY ALERT!", ":rotating_light:">>,
       <<":mega:", "HEY", " ">> \o ChannelToken \o <<"!", " ", "STOP WHAT YOURE DOING!", ":mega:">>,
       <<":siren:", "URGENT: CAKE NEEDED IN THE CHAT!", ":siren:">> >>

\* create_birthday_announcement: the template announcement; intro is the
\* random choice among BIRTHDAY_INTROS (the other random choices carry no
\* token, no age and no date and are one symbol each)
create_birthday_announcement(user_id, name, date_str, birth_year, now_year, intro) ==
    LET day == SplitDate(date_str).day
        month == SplitDate(date_str).month
        parsed == ValidDate(2000, month, day)
        date_line == IF parsed THEN <<MonthNames[month], " ", ToString(day)>>
                     ELSE <<"Unknown Month", " ", "??">>
        age == now_year - birth_year
        age_text == IF birth_year # NoYear THEN <<" ", "(", ToString(age), " ", "years young", ")">> ELSE <<>>
        age_fact == IF birth_year # NoYear THEN AgeFact(age) ELSE <<>>
        star_sign_text == <<":crystal_ball:", " ", get_star_sign(date_str)>>
    IN  BIRTHDAY_INTROS[intro] \o <<NL, NL, "middle", NL, NL>>
        \o get_user_mention(user_id) \o <<NL, "emoji", " ", "Birthday Extraordinaire", " ", "emoji", NL>>
        \o date_line \o age_text \o <<NL>> \o star_sign_text \o <<NL, NL>>
        \o age_fact \o <<NL, NL, "-", "-", "-", NL, "call to action", NL, NL, "ending", NL, NL>>
        \o ChannelToken \o <<" ", "Lets celebrate together!">>

\* BACKUP_MESSAGES: every template holds the placeholder {name} once and the
\* broadcast token once; the first has the placeholder before the token
BACKUP_MESSAGES ==
    << <<":birthday:", " ", "HAPPY BIRTHDAY", " ", "{name}", "!", "!", "!", NL, NL>>
           \o ChannelToken \o <<" ", "Weve got a birthday to celebrate!">>,
       <<":rotating_light:", " ", "ATTENTION", " ">> \o ChannelToken
           \o <<NL, NL, "ITS", " ", "{name}", "s BIRTHDAY", "!", "!", "!">>,
       <<":alarm_clock:", " ", "*", "Birthday Alert", "*", NL, NL>> \o ChannelToken
           \o <<" ", "Everyone drop what youre doing because...", NL, NL, "{name}", " ",
                "is having a BIRTHDAY today", "!">>,
       <<"Whoop whoop", "!", NL, NL, ":loudspeaker:", " ">> \o ChannelToken
           \o <<" ", "Announcement", "!", NL, NL, "Its", " ", "{name}", "s special day", "!">>,
       <<":rotating_light:", " ", "SPECIAL BIRTHDAY ANNOUNCEMENT", NL, NL>> \o ChannelToken
           \o <<" ", "HEY EVERYONE", "!", NL, NL, "Its", " ", "{name}", "s birthday", "!">> >>

\* the fallback without the substitution of the placeholder
FallbackMessageRaw(pick, mention_text) == BACKUP_MESSAGES[pick]

\* random_message.replace("{name}", mention_text)
FallbackMessage(pick, mention_text) == Replace(BACKUP_MESSAGES[pick], "{name}", mention_text)

\* user_mention of completion(): the mention token, or the name without a user id
UserMention(name, user_id) == IF user_id # None THEN get_user_mention(user_id) ELSE <<name>>

\* a user message that states an age whether or not a birth year is known
UserContent_always_age(name, date, user_id, birth_date, birth_year, now_year) ==
    <<name, "s birthday is on", " ", date, ".">>
    \o <<" ", "Theyre turning", " ", ToString(now_year - birth_year), " ", "today!">>
    \o <<" ", "Please write them a birthday message", NL, "Include their Slack mention", " ">>
    \o UserMention(name, user_id) \o <<NL, "address the entire channel with", " ">>
    \o ChannelToken \o <<NL, "Your name is", " ", "personality name", NL, "Today is", " ", "today">>

\* the user message of the prompt
UserContent(name, date, user_id, birth_date, birth_year, now_year) ==
    LET star_sign_text == IF birth_date # NoDate
                          THEN <<" ", "Their star sign is", " ", get_star_sign(birth_date), ".">>
                          ELSE <<>>
        age_text == IF birth_year # NoYear
                    THEN <<" ", "Theyre turning", " ", ToString(now_year - birth_year), " ", "today!">>
                    ELSE <<>>
    IN  <<name, "s birthday is on", " ", date, ".">> \o star_sign_text \o age_text
        \o <<" ", "Please write them a birthday message", NL, "Include their Slack mention", " ">>
        \o UserMention(name, user_id) \o <<NL, "address the entire channel with", " ">>
        \o ChannelToken \o <<NL, "Your name is", " ", "personality name", NL, "Today is", " ", "today">>

\* get_template() followed by template.append(user message)
InitialTemplate(name, date, user_id, birth_date, birth_year, now_year) ==
    << [role |-> "system", content |-> <<"personality template">>],
       [role |-> "user",
        content |-> UserContent(name, date, user_id, birth_date, birth_year, now_year)] >>

\* validation that forgets the broadcast token
validation_errors_mention_only(reply, user_id) ==
    IF user_id # None /\ ~Contains(reply, get_user_mention(user_id))
    THEN << <<"Missing user mention", " ">> \o get_user_mention(user_id) >>
    ELSE <<>>

\* validation_errors after both checks; is_valid is validation_errors = <<>>
validation_errors(reply, user_id) ==
    (IF user_id # None /\ ~Contains(reply, get_user_mention(user_id))
     THEN << <<"Missing user mention", " ">> \o get_user_mention(user_id) >>
     ELSE <<>>)
    \o (IF ~Contains(reply, ChannelToken)
        THEN << <<"Missing channel mention", " ">> \o ChannelToken >>
        ELSE <<>>)

\* a corrective message that names both tokens as missing, whatever was missing
Clarification_names_both(errors, name, user_id) ==
    <<"The message you provided is missing:", " ">>
    \o <<"Missing user mention", " ">> \o UserMention(name, user_id) \o <<",", " ">>
    \o <<"Missing channel mention", " ">> \o ChannelToken
    \o <<".", " ", "Please regenerate the message including both the user mention", " ">>
    \o UserMention(name, user_id) \o <<" ", "and channel mention", " ">> \o ChannelToken

\* the corrective user message of a retry
Clarification(errors, name, user_id) ==
    <<"The message you provided is missing:", " ">> \o Join(errors, <<",", " ">>)
    \o <<".", " ", "Please regenerate the message including both the user mention", " ">>
    \o UserMention(name, user_id) \o <<" ", "and channel mention", " ">> \o ChannelToken

\* the loop body with a retry that does not count itself
LoopIteration_retry_keeps_count(args, template, retry_count, outcome) ==
    IF outcome.raises
    THEN [exit |-> "fallback",
          text |-> FallbackMessage(outcome.pick, UserMention(args.name, args.user_id)),
          template |-> template, retry_count |-> retry_count]
    ELSE LET reply == fix_slack_formatting(outcome.reply)
             errors == validation_errors(reply, args.user_id)
         IN  IF errors = <<>>
             THEN [exit |-> "validated", text |-> reply,
                   template |-> template, retry_count |-> retry_count]
             ELSE IF retry_count < args.max_retries
             THEN [exit |-> "retry", text |-> <<>>,
                   template |-> template
                       \o << [role |-> "assistant", content |-> reply],
                             [role |-> "user",
                              content |-> Clarification(errors, args.name, args.user_id)] >>,
                   retry_count |-> retry_count]
             ELSE [exit |-> "exhausted", text |-> reply,
                   template |-> template, retry_count |-> retry_count]

\* the loop body with the test retry_count <= max_retries in the place of
\* retry_count < max_retries: it asks for one retry too many
LoopIteration_retry_too_long(args, template, retry_count, outcome) ==
    IF outcome.raises
    THEN [exit |-> "fallback",
          text |-> FallbackMessage(outcome.pick, UserMention(args.name, args.user_id)),
          template |-> template, retry_count |-> retry_count]
    ELSE LET reply == fix_slack_formatting(outcome.reply)
             errors == validation_errors(reply, args.user_id)
         IN  IF errors = <<>>
             THEN [exit |-> "validated", text |-> reply,
                   template |-> template, retry_count |-> retry_count]
             ELSE IF retry_count <= args.max_retries
             THEN [exit |-> "retry", text |-> <<>>,
                   template |-> template
                       \o << [role |-> "assistant", content |-> reply],
                             [role |-> "user",
                              content |-> Clarification(errors, args.name, args.user_id)] >>,
                   retry_count |-> retry_count + 1]
             ELSE [exit |-> "exhausted", text |-> reply,
                   template |-> template, retry_count |-> retry_count]

\* One pass through the body of the retry loop.  outcome is what the
\* generative backend does on this call: it raises, or it returns raw text;
\* pick is the random choice among BACKUP_MESSAGES.
LoopIteration(args, template, retry_count, outcome) ==
    IF outcome.raises
    THEN [exit |-> "fallback",
          text |-> FallbackMessage(outcome.pick, UserMention(args.name, args.user_id)),
          template |-> template, retry_count |-> retry_count]
    ELSE LET reply == fix_slack_formatting(outcome.reply)
             errors == validation_errors(reply, args.user_id)
         IN  IF errors = <<>>
             THEN [exit |-> "validated", text |-> reply,
                   template |-> template, retry_count |-> retry_count]
             ELSE IF retry_count < args.max_retries
             THEN [exit |-> "retry", text |-> <<>>,
                   template |-> template
                       \o << [role |-> "assistant", content |-> reply],
                             [role |-> "user",
                              content |-> Clarification(errors, args.name, args.user_id)] >>,
                   retry_count |-> retry_count + 1]
             ELSE [exit |-> "exhausted", text |-> reply,
                   template |-> template, retry_count |-> retry_count]

(***************************************************************************)
(* utils/date_utils.py: date_to_words                                      *)
(***************************************************************************)
DaySuffix(day) ==
    IF day >= 11 /\ day <= 13 THEN "th"
    ELSE IF day % 10 = 1 THEN "st"
    ELSE IF day % 10 = 2 THEN "nd"
    ELSE IF day % 10 = 3 THEN "rd"
    ELSE "th"

\* strptime raises ValueError for 29/02, which date_to_words does not catch
date_to_words(date_str, year) ==
    IF StrptimeRaises(date_str) THEN [raised |-> TRUE, words |-> <<>>]
    ELSE LET day == SplitDate(date_str).day
             month == SplitDate(date_str).month
         IN  [raised |-> FALSE,
              words |-> <<ToString(day), DaySuffix(day), " of ", MonthNames[month]>>
                        \o (IF year # NoYear THEN <<", ", ToString(year)>> ELSE <<>>)]

(***************************************************************************)
(* The calendar days of the scheduler model, numbered 1..MaxDays.  The     *)
(* marker file of day d is announced_<YYYY-MM-DD>.txt of that date.        *)
(***************************************************************************)
FirstDay == Date(2096, 2, 28)

NextDay(dt) ==
    IF dt.day < DaysInMonth(dt.year, dt.month) THEN Date(dt.year, dt.month, dt.day + 1)
    ELSE IF dt.month < 12 THEN Date(dt.year, dt.month + 1, 1)
    ELSE Date(dt.year + 1, 1, 1)

RECURSIVE DayDate(_)
DayDate(d) == IF d <= 1 THEN FirstDay ELSE NextDay(DayDate(d - 1))

Days == 1..MaxDays

Range(seq) == {seq[i] : i \in 1..Len(seq)}

(***************************************************************************)
(* utils/storage.py: the announcement ledger.  The tracking directory maps *)
(* each day to its marker file: absent, or the lines written so far.       *)
(***************************************************************************)
NoFile == [exists |-> FALSE, lines |-> <<>>]

\* a filter that takes every file of the directory, the file of the day too
StaleFiles_every_file(tracking_dir, now_day) ==
    {d \in DOMAIN tracking_dir : tracking_dir[d].exists}

\* filename.startswith("announced_") and filename != f"announced_{today}.txt"
StaleFiles(tracking_dir, now_day) ==
    {d \in DOMAIN tracking_dir : tracking_dir[d].exists /\ d # now_day}

\* cleanup that logs the stale files and removes none
cleanup_old_announcement_files_log_only(tracking_dir, removed) == tracking_dir

\* cleanup_old_announcement_files: os.remove went through for the files in
\* removed; an exception (os.listdir, os.remove) ends the loop and is logged
cleanup_old_announcement_files(tracking_dir, removed) ==
    [d \in DOMAIN tracking_dir |-> IF d \in removed THEN NoFile ELSE tracking_dir[d]]

\* reading that takes the markers of every file in the directory
get_announced_birthdays_today_any_day(tracking_dir, now_day, read_ok) ==
    LET RECURSIVE AllLines(_)
        AllLines(d) == IF d = 0 THEN <<>> ELSE AllLines(d - 1) \o tracking_dir[d].lines
    IN  AllLines(MaxDays)

\* reading that never finds a marker
get_announced_birthdays_today_always_empty(tracking_dir, now_day, read_ok) == <<>>

\* reading that hands back the lines although the read failed
get_announced_birthdays_today_despite_failure(tracking_dir, now_day, read_ok) ==
    IF tracking_dir[now_day].exists THEN tracking_dir[now_day].lines ELSE <<>>

\* get_announced_birthdays_today: the lines of todays file; [] when the file
\* is absent or cannot be read
get_announced_birthdays_today(tracking_dir, now_day, read_ok) ==
    IF read_ok /\ tracking_dir[now_day].exists THEN tracking_dir[now_day].lines ELSE <<>>

\* a marker write that opens the file anew and drops what it held
mark_birthday_announced_truncating(tracking_dir, now_day, user_id, write_ok) ==
    IF write_ok
    THEN [tracking_dir EXCEPT ![now_day] = [exists |-> TRUE, lines |-> <<user_id>>]]
    ELSE tracking_dir

\* mark_birthday_announced: append a line to todays file; a failed write is
\* logged and leaves the file as it was
mark_birthday_announced(tracking_dir, now_day, user_id, write_ok) ==
    IF write_ok
    THEN [tracking_dir EXCEPT ![now_day] =
             [exists |-> TRUE, lines |-> Append(tracking_dir[now_day].lines, user_id)]]
    ELSE tracking_dir

(***************************************************************************)
(* utils/slack_utils.py: send_message; utils/message_generator.py:         *)
(* send_birthday_announcement                                              *)
(***************************************************************************)
\* what a call of the chat client does: it succeeds, it raises SlackApiError,
\* or the platform is unreachable and another exception comes out of it
ClientOutcomes == {"ok", "SlackApiError", "Unreachable"}

\* get_username: the profile name; the mention text after a SlackApiError;
\* any other exception is not caught
get_username(user_id, outcome) ==
    IF outcome = "ok" THEN [raised |-> FALSE, name |-> <<"Ann">>]
    ELSE IF outcome = "SlackApiError" THEN [raised |-> FALSE, name |-> get_user_mention(user_id)]
    ELSE [raised |-> TRUE, name |-> <<>>]

\* True after a post, False after a caught SlackApiError; only SlackApiError
\* is caught
send_message(outcome) ==
    IF outcome = "ok" THEN "True"
    ELSE IF outcome = "SlackApiError" THEN "False"
    ELSE "raise"

\* try: completion(), send_message(); except Exception: the template
\* announcement, send_message().  The result of send_message is dropped.
\* posts lists the delivery attempts in order: [ok, source].  Of completion()
\* (SpecCompletion) only this matters here: it returns a text, or it raises
\* before its retry loop (get_template); the text does not steer the run.
send_birthday_announcement(completion_raises, outcome1, outcome2) ==
    IF completion_raises
    THEN [raised |-> send_message(outcome1) = "raise",
          posts |-> << [ok |-> send_message(outcome1) = "True", source |-> "template"] >>]
    ELSE IF send_message(outcome1) = "raise"
    THEN [raised |-> send_message(outcome2) = "raise",
          posts |-> << [ok |-> FALSE, source |-> "completion"],
                       [ok |-> send_message(outcome2) = "True", source |-> "template"] >>]
    ELSE [raised |-> FALSE,
          posts |-> << [ok |-> send_message(outcome1) = "True", source |-> "completion"] >>]

(***************************************************************************)
(* utils/date_utils.py: extract_date.  A message is a sequence of          *)
(* characters; the two regular expressions are searched as re.search does. *)
(***************************************************************************)
\* \d
IsDigitChar(c) == \E n \in 1..Len(Digits) : Digits[n] = c

\* \w: digits and letters (every letter of a message is written "x")
IsWordChar(c) == IsDigitChar(c) \/ c = "x"

\* \b just before position i: a word character on exactly one side
WordBoundary(t, i) ==
    (i > 1 /\ i - 1 <= Len(t) /\ IsWordChar(t[i - 1])) # (i >= 1 /\ i <= Len(t) /\ IsWordChar(t[i]))

\* \d{n} at position i
DigitsAt(t, i, n) == i + n - 1 <= Len(t) /\ \A k \in 0..(n - 1) : IsDigitChar(t[i + k])

\* \b(\d{2}/\d{2}/\d{4})\b matches at position i
YearPatternAt(t, i) ==
    /\ i + 9 <= Len(t)
    /\ WordBoundary(t, i)
    /\ DigitsAt(t, i, 2) /\ t[i + 2] = "/"
    /\ DigitsAt(t, i + 3, 2) /\ t[i + 5] = "/"
    /\ DigitsAt(t, i + 6, 4)
    /\ WordBoundary(t, i + 10)

\* \b(\d{2}/\d{2})(?!/\d{4})\b matches at position i
BarePatternAt(t, i) ==
    /\ i + 4 <= Len(t)
    /\ WordBoundary(t, i)
    /\ DigitsAt(t, i, 2) /\ t[i + 2] = "/"
    /\ DigitsAt(t, i + 3, 2)
    /\ ~(i + 5 <= Len(t) /\ t[i + 5] = "/" /\ DigitsAt(t, i + 6, 4))
    /\ WordBoundary(t, i + 5)

\* int() of a run of digits
RECURSIVE NumVal(_)
NumVal(ds) == IF ds = <<>> THEN 0 ELSE 10 * NumVal(SubSeq(ds, 1, Len(ds) - 1)) + DigitVal(ds[Len(ds)])

\* datetime.strptime(s, "%d/%m/%Y") raises ValueError: the year is below
\* datetime.MINYEAR or the date does not exist in that year
StrptimeYearRaises(s) ==
    ~(NumVal(SubSeq(s, 7, 10)) >= 1
      /\ ValidDate(NumVal(SubSeq(s, 7, 10)), SplitDate(s).month, SplitDate(s).day))

\* an extraction that takes whichever pattern stands first in the text
extract_date_first_in_text(msg) ==
    LET year_matches == {i \in 1..Len(msg) : YearPatternAt(msg, i)}
        matches == {i \in 1..Len(msg) : BarePatternAt(msg, i)}
        failure(status) == [status |-> status, date |-> NoDate, year |-> NoYear]
    IN  IF year_matches # {} /\ (matches = {} \/ Min(year_matches) < Min(matches))
        THEN LET date_with_year == SubSeq(msg, Min(year_matches), Min(year_matches) + 9)
             IN  IF StrptimeYearRaises(date_with_year) THEN failure("invalid_date")
                 ELSE [status |-> "success",
                       date |-> FormatDate(SplitDate(date_with_year).day,
                                           SplitDate(date_with_year).month),
                       year |-> NumVal(SubSeq(date_with_year, 7, 10))]
        ELSE IF matches = {} THEN failure("no_date")
        ELSE LET date == SubSeq(msg, Min(matches), Min(matches) + 4)
             IN  IF StrptimeRaises(date) THEN failure("invalid_date")
                 ELSE [status |-> "success", date |-> date, year |-> NoYear]

extract_date(message) ==
    LET year_matches == {i \in 1..Len(message) : YearPatternAt(message, i)}
        matches == {i \in 1..Len(message) : BarePatternAt(message, i)}
        failure(status) == [status |-> status, date |-> NoDate, year |-> NoYear]
    IN  IF year_matches # {}
        THEN LET date_with_year == SubSeq(message, Min(year_matches), Min(year_matches) + 9)
             IN  IF StrptimeYearRaises(date_with_year) THEN failure("invalid_date")
                 ELSE [status |-> "success",
                       date |-> FormatDate(SplitDate(date_with_year).day,
                                           SplitDate(date_with_year).month),
                       year |-> NumVal(SubSeq(date_with_year, 7, 10))]
        ELSE IF matches = {} THEN failure("no_date")
        ELSE LET date == SubSeq(message, Min(matches), Min(matches) + 4)
             IN  IF StrptimeRaises(date) THEN failure("invalid_date")
                 ELSE [status |-> "success", date |-> date, year |-> NoYear]

(***************************************************************************)
(* State.                                                                  *)
(***************************************************************************)
VARIABLES
    date_pc,         \* date functions: "input" or "computed"
    date_str,        \* the record date, "DD/MM"
    reference_date,  \* the calendar date of the reference instant
    days_until,      \* result of calculate_days_until_birthday
    is_today,        \* result of check_if_birthday_today
    c_pc,            \* completion(): "idle", "loop", "returned" or "raised"
    c_args,          \* completion(): its arguments and the year of the clock
    template,        \* completion(): the prompt messages
    retry_count,     \* completion(): retry_count
    c_calls,         \* completion(): number of backend calls made so far
    c_raise_call,    \* completion(): the call at which the backend raised, 0 if none
    c_exit,          \* completion(): the return statement taken
    c_result,        \* completion(): the returned text
    c_last_reply,    \* completion(): the raw text of the latest backend response
    birthdays,       \* the birthday store: records in file order
    tracking,        \* the tracking directory: day -> marker file
    today,           \* the calendar day of the clock, datetime.now()
    d_pc,            \* daily(): "idle", "cleanup", "read", "scan", "done" or "raised"
                     \* ("off" where the scheduler is not in use)
    moment,          \* daily(): the day of its argument moment
    loaded,          \* daily(): the birthdays it loaded
    already_announced, \* daily(): the announced list it read
    idx,             \* daily(): position of the loop in loaded
    birthday_count,  \* daily(): birthday_count
    runs,            \* number of daily() runs started
    delivered_today, \* history: posts that went through on the day of the clock, per subject
    run_attempted,   \* history: subjects with a delivery attempt in the current run
    run_failed,      \* history: subjects with a failed delivery attempt in the current run
    run_delivered,   \* history: subjects with a post that went through in the current run
    run_log,         \* history: the ledger calls and announcements of the current run, in order
    day_runs,        \* history: the runs on the day of the clock so far: "none", "clean"
                     \* (whole runs with moment on that day and no failure) or "faulty"
    raise_cause,     \* history: what raised out of the current run
    last_cleanup,    \* history: "ok" or "failed" right after cleanup, else "none"
    last_removed,    \* history: number of files that cleanup removed
    ledger_day,      \* history: the day the latest ledger call of the run worked on, 0 if none
    last_fault,      \* history: "read_failed" or "write_failed" right after such a call
    p_pc,            \* extract_date: "idle", "input", "extracted" or "signed"
    message,         \* extract_date: the message text
    extracted,       \* extract_date: its result
    star_sign,       \* get_star_sign of the extracted date
    l_pc,            \* list command: "idle", "input" or "listed"
    bdate,           \* list command: the date of the record, "DD/MM"
    birth_year,      \* list command: the year of the record
    l_reference_date, \* list command: the calendar date of datetime.now(timezone.utc)
    l_time,          \* list command: its time of day, "midnight" (00:00:00.000000) or "later"
    l_days_until,    \* list command: days_until
    age_text,        \* list command: age_text
    l_birthdays,     \* list command: the records load_birthdays returned, in file order
    l_all,           \* list command: list_all
    birthday_list,   \* list command: birthday_list
    l_shown,         \* list command: the entries of the reply, or the exception
    BIRTHDAYS_FILE,  \* storage: birthdays.txt, [exists, lines, mtime]
    backup_dir,      \* storage: the backup files, each [name, mtime, lines]
    s_clock,         \* storage: the second of the clock
    s_count,         \* storage: number of operations done
    s_last,          \* storage: history of the latest operation
    r_pc,            \* reminders: "idle", "loop", "returned" or "raised"
    r_users,         \* reminders: the users argument
    r_custom,        \* reminders: custom_message, a text or NoMessage
    r_idx,           \* reminders: position of the loop in users
    results,         \* reminders: the results dictionary
    r_sent,          \* reminders: history of the calls of send_message
    COMMAND_PERMISSIONS, \* config: command -> admin only
    ADMIN_USERS,     \* config: the admin list
    cfg_count,       \* number of config commands handled
    cfg_request,     \* history: the latest config command, who sent it and as what
    cfg_before,      \* history: COMMAND_PERMISSIONS before the latest config command
    cfg_said,        \* history: the reply to the latest config command
    admins_file,     \* config: admins.json, [state, admins]
    current_personality, \* config: the selected personality
    k_pc,            \* concurrent runs: instance -> "idle", "cleanup", "read", "scan",
                     \* "mark" or "done"
    k_announced,     \* concurrent runs: instance -> the announced list it read
    k_idx,           \* concurrent runs: instance -> position of its loop
    k_loaded,        \* concurrent runs: instance -> the birthdays it loaded
    k_counted,       \* history: instance -> the subjects it counted in birthday_count
    adds,            \* number of add commands handled
    k_log            \* history: the reads, deliveries and marker writes, in order

dateVars == <<date_pc, date_str, reference_date, days_until, is_today>>

compVars == <<c_pc, c_args, template, retry_count, c_calls, c_raise_call, c_exit, c_result,
              c_last_reply>>

dailyVars == <<birthdays, tracking, today, d_pc, moment, loaded, already_announced, idx,
               birthday_count, runs, delivered_today, run_attempted, run_failed, day_runs,
               raise_cause, last_cleanup, last_removed, ledger_day, last_fault,
               run_delivered, run_log>>

parseVars == <<p_pc, message, extracted, star_sign>>

listVars == <<l_pc, bdate, birth_year, l_reference_date, l_time, l_days_until, age_text,
              l_birthdays, l_all, birthday_list, l_shown>>

configVars == <<COMMAND_PERMISSIONS, ADMIN_USERS, cfg_count, cfg_request, cfg_before, cfg_said,
                admins_file, current_personality>>

concVars == <<k_pc, k_announced, k_idx, k_loaded, k_counted, adds, k_log>>

\* the part of the state of daily() that belongs to one run
dailyRunVars == <<d_pc, moment, loaded, already_announced, idx, birthday_count, runs,
                  run_attempted, run_failed, run_delivered, day_runs, raise_cause,
                  last_cleanup, last_removed, ledger_day, last_fault, run_log>>

storageVars == <<BIRTHDAYS_FILE, backup_dir, s_clock, s_count, s_last>>

remindVars == <<r_pc, r_users, r_custom, r_idx, results, r_sent>>

vars == <<dateVars, compVars, dailyVars, parseVars, listVars, configVars, concVars,
          storageVars, remindVars>>

(***************************************************************************)
(* The parts of the state a specification does not use stay idle.          *)
(***************************************************************************)
NoResult == [raised |-> FALSE, days |-> -1, examined |-> 0]

InitDateIdle ==
    /\ date_pc = "idle"
    /\ date_str = FormatDate(1, 1)
    /\ reference_date = Date(RefYearFirst, 1, 1)
    /\ days_until = NoResult
    /\ is_today = FALSE

NoExtract == [status |-> "none", date |-> NoDate, year |-> NoYear]

InitParseIdle ==
    /\ p_pc = "idle"
    /\ message = <<>>
    /\ extracted = NoExtract
    /\ star_sign = "none"

NoAge == [kind |-> "none", value |-> 0]

\* no birthdays file
NoBirthdaysFile == [exists |-> FALSE, lines |-> <<>>, mtime |-> 0]

\* no operation yet
NoOperation ==
    [op |-> "none", user |-> "None", date |-> NoDate, year |-> NoYear, returned |-> "none",
     before |-> <<>>, outcome |-> "none", created |-> {}, removed |-> {}]

InitStorageIdle ==
    /\ BIRTHDAYS_FILE = NoBirthdaysFile
    /\ backup_dir = {}
    /\ s_clock = 0
    /\ s_count = 0
    /\ s_last = NoOperation

\* custom_message is None
NoMessage == <<>>

\* results = {"successful": 0, "failed": 0, "skipped_bots": 0, "users": []}
NoResults == [successful |-> 0, failed |-> 0, skipped_bots |-> 0, users |-> <<>>]

InitRemindIdle ==
    /\ r_pc = "idle"
    /\ r_users = <<>>
    /\ r_custom = NoMessage
    /\ r_idx = 1
    /\ results = NoResults
    /\ r_sent = <<>>

\* nothing said yet
NotShown == [raised |-> FALSE, entries |-> <<>>]

InitListOrderIdle ==
    /\ l_birthdays = <<>>
    /\ l_all = FALSE
    /\ birthday_list = <<>>
    /\ l_shown = NotShown

InitListIdle ==
    /\ l_pc = "idle"
    /\ bdate = FormatDate(1, 1)
    /\ birth_year = NoYear
    /\ l_reference_date = Date(RefYearFirst, 1, 1)
    /\ l_time = "midnight"
    /\ l_days_until = NoResult
    /\ age_text = NoAge
    /\ InitListOrderIdle

\* settings.py lines 52-55
DefaultPermissions == [c \in {"list", "stats"} |-> TRUE]

NoRequest == [user |-> "None", lookup |-> "member", parts |-> <<>>]

\* admins.json holding a list, as json.dump wrote it
AdminsFile(admin_list) == [state |-> "ok", admins |-> admin_list]

InitConfigIdle ==
    /\ COMMAND_PERMISSIONS = DefaultPermissions
    /\ ADMIN_USERS = <<>>
    /\ cfg_count = 0
    /\ cfg_request = NoRequest
    /\ cfg_before = DefaultPermissions
    /\ cfg_said = "none"
    /\ admins_file = AdminsFile(<<>>)
    /\ current_personality = "standard"

NoArgs == [name |-> "Ann", date |-> "date words", user_id |-> None, birth_date |-> NoDate,
           birth_year |-> NoYear, max_retries |-> DefaultMaxRetries, now_year |-> 2024]

InitCompletionIdle ==
    /\ c_pc = "idle"
    /\ c_args = NoArgs
    /\ template = <<>>
    /\ retry_count = 0
    /\ c_calls = 0
    /\ c_raise_call = 0
    /\ c_exit = "none"
    /\ c_result = <<>>
    /\ c_last_reply = <<>>

Users == {"U1", "U2"}

\* two scheduler instances
Instances == {"A", "B"}

InitConcurrentIdle ==
    /\ k_pc = [p \in Instances |-> "idle"]
    /\ k_announced = [p \in Instances |-> <<>>]
    /\ k_idx = [p \in Instances |-> 1]
    /\ k_loaded = [p \in Instances |-> <<>>]
    /\ k_counted = [p \in Instances |-> {}]
    /\ adds = 0
    /\ k_log = <<>>

InitDailyIdle ==
    /\ birthdays = <<>>
    /\ tracking = [d \in Days |-> NoFile]
    /\ today = 1
    /\ d_pc = "off"
    /\ moment = 1
    /\ loaded = <<>>
    /\ already_announced = <<>>
    /\ idx = 1
    /\ birthday_count = 0
    /\ runs = 0
    /\ delivered_today = [u \in Users |-> 0]
    /\ run_attempted = {}
    /\ run_failed = {}
    /\ run_delivered = {}
    /\ run_log = <<>>
    /\ day_runs = "none"
    /\ raise_cause = "none"
    /\ last_cleanup = "none"
    /\ last_removed = 0
    /\ ledger_day = 0
    /\ last_fault = "none"

(***************************************************************************)
(* Date arithmetic on bounded inputs.                                      *)
(***************************************************************************)
\* day/month pairs that are a real date in at least one year
BirthdayDays == {dm \in (1..31) \X {1, 2, 3, 12} :
                    /\ dm[1] \in {1, 15, 28, 29, 30, 31}
                    /\ ValidDate(2000, dm[2], dm[1])}

ReferenceDates == {dt \in [year : RefYearFirst..RefYearLast, month : 1..12, day : 1..31] :
                      ValidDate(dt.year, dt.month, dt.day)}

InitDate ==
    /\ InitListIdle
    /\ InitConfigIdle
    /\ InitConcurrentIdle
    /\ InitCompletionIdle
    /\ InitStorageIdle
    /\ InitRemindIdle
    /\ InitDailyIdle
    /\ InitParseIdle
    /\ date_pc = "input"
    /\ date_str \in {FormatDate(dm[1], dm[2]) : dm \in BirthdayDays}
    /\ reference_date \in ReferenceDates
    /\ days_until = NoResult
    /\ is_today = FALSE

ComputeDate ==
    /\ date_pc = "input"
    /\ date_pc' = "computed"
    /\ days_until' = calculate_days_until_birthday(date_str, reference_date)
    /\ is_today' = check_if_birthday_today(date_str, reference_date)
    /\ UNCHANGED <<date_str, reference_date>>
    /\ UNCHANGED compVars
    /\ UNCHANGED <<dailyVars, parseVars, listVars, configVars, concVars,
                   storageVars, remindVars>>

NextDate == ComputeDate

SpecDate == InitDate /\ [][NextDate]_vars

(***************************************************************************)
(* utils/slack_utils.py: is_admin, check_command_permission;               *)
(* handlers/commands/config_commands.py: handle_config_command.            *)
(***************************************************************************)
\* what users_info tells about a user, or how the call fails
AdminLookups == {"admin", "member", "SlackApiError", "Unreachable"}

\* is_admin: in the admin list, or a workspace admin; False after a
\* SlackApiError; any other exception is not caught
is_admin(user_id, admin_users, lookup) ==
    IF user_id \in Range(admin_users) THEN "True"
    ELSE IF lookup = "admin" THEN "True"
    ELSE IF lookup \in {"member", "SlackApiError"} THEN "False"
    ELSE "raise"

\* permission check that only looks at the settings
check_command_permission_settings_only(user_id, command, permissions, admin_users, lookup) ==
    IF command \in DOMAIN permissions /\ permissions[command]
    THEN is_admin(user_id, admin_users, lookup)
    ELSE "True"

check_command_permission(user_id, command, permissions, admin_users, lookup) ==
    IF command = "remind" THEN is_admin(user_id, admin_users, lookup)
    ELSE IF command \in DOMAIN permissions /\ permissions[command]
    THEN is_admin(user_id, admin_users, lookup)
    ELSE "True"

\* handle_config_command: the reply and the settings after it
handle_config_command(parts, user_id, permissions, admin_users, lookup) ==
    IF is_admin(user_id, admin_users, lookup) = "raise"
    THEN [said |-> "raise", permissions |-> permissions]
    ELSE IF is_admin(user_id, admin_users, lookup) = "False"
    THEN [said |-> "Only admins can change command permissions", permissions |-> permissions]
    ELSE IF Len(parts) < 3
    THEN [said |-> "Current Command Permission Settings", permissions |-> permissions]
    ELSE IF parts[2] = "remind"
    THEN [said |-> "The remind command is always admin-only", permissions |-> permissions]
    ELSE IF parts[2] \notin DOMAIN permissions
    THEN [said |-> "Unknown command", permissions |-> permissions]
    ELSE IF parts[3] \notin {"true", "false"}
    THEN [said |-> "Invalid setting", permissions |-> permissions]
    ELSE [said |-> "Updated",
          permissions |-> [permissions EXCEPT ![parts[2]] = (parts[3] = "true")]]

\* bound on the number of config commands
MaxConfigCommands == 3

\* admin lists as initialize_config leaves them: the list of the file, or
\* the default admins; no user id twice
AdminLists ==
    { <<>> } \cup { <<u>> : u \in Users }
    \cup { l \in { <<u, v>> : u \in Users, v \in Users } : l[1] # l[2] }

\* text.strip().lower().split() of a message that starts with config
ConfigParts ==
    { <<"config">> }
    \cup { <<"config", c>> : c \in {"list", "remind"} }
    \cup { <<"config", c, v>> : c \in {"list", "stats", "remind", "add"},
                                v \in {"true", "false", "yes"} }

InitConfig ==
    /\ InitConcurrentIdle
    /\ InitDateIdle
    /\ InitCompletionIdle
    /\ InitStorageIdle
    /\ InitRemindIdle
    /\ InitDailyIdle
    /\ InitParseIdle
    /\ InitListIdle
    /\ COMMAND_PERMISSIONS = DefaultPermissions
    /\ ADMIN_USERS \in AdminLists
    /\ admins_file = AdminsFile(ADMIN_USERS)
    /\ current_personality = "standard"
    /\ cfg_count = 0
    /\ cfg_request = NoRequest
    /\ cfg_before = DefaultPermissions
    /\ cfg_said = "none"

\* a user sends a config command
ConfigCommand ==
    /\ cfg_count < MaxConfigCommands
    /\ \E user_id \in Users, lookup \in AdminLookups, parts \in ConfigParts :
          LET r == handle_config_command(parts, user_id, COMMAND_PERMISSIONS, ADMIN_USERS,
                                         lookup)
          IN  /\ COMMAND_PERMISSIONS' = r.permissions
              /\ cfg_said' = r.said
              /\ cfg_request' = [user |-> user_id, lookup |-> lookup, parts |-> parts]
    /\ cfg_before' = COMMAND_PERMISSIONS
    /\ cfg_count' = cfg_count + 1
    /\ UNCHANGED <<ADMIN_USERS, admins_file, current_personality>>
    /\ UNCHANGED <<dateVars, compVars, dailyVars, parseVars, listVars, concVars,
                   storageVars, remindVars>>

NextConfig == ConfigCommand

SpecConfig == InitConfig /\ [][NextConfig]_vars

(***************************************************************************)
(* utils/config_storage.py, config/personalities.py,                       *)
(* handlers/commands/admin_commands.py and handlers/command_handler.py:    *)
(* the admin and config commands of a direct message.                      *)
(***************************************************************************)
\* load_admins_from_file: the list of the file; [] when the file is absent,
\* is not JSON or cannot be read
load_admins_from_file(file, read_ok) ==
    IF read_ok /\ file.state = "ok" THEN file.admins ELSE <<>>

\* how save_admins_to_file ends: written; open() raised and the file is as it
\* was; open(ADMINS_FILE, "w") emptied the file and the write raised
SaveOutcomes == {"ok", "open_fails", "write_fails"}

\* save_admins_to_file: True and the new file, or False after an exception
save_admins_to_file(file, admin_list, outcome) ==
    IF outcome = "ok" THEN [ok |-> TRUE, file |-> AdminsFile(admin_list)]
    ELSE IF outcome = "open_fails" THEN [ok |-> FALSE, file |-> file]
    ELSE [ok |-> FALSE, file |-> [state |-> "corrupt", admins |-> <<>>]]

\* args[0].strip("<@>").upper() of a word of the lowercased text
StripUpper(arg) ==
    IF arg \in {"u1", "<@u1>"} THEN "U1"
    ELSE IF arg \in {"u2", "<@u2>"} THEN "U2"
    ELSE "U9"

\* app.client.users_info(user=new_admin): ok, not ok, or an exception
Validations == {"ok", "not_ok", "raises"}

\* the part of the configuration the commands act on
AdminState(admin_users, file, personality) ==
    [admin_users |-> admin_users, file |-> file, personality |-> personality]

\* removal of the first occurrence, list.remove
ListRemove(list, x) ==
    LET at == Min({i \in 1..Len(list) : list[i] = x})
    IN  SubSeq(list, 1, at - 1) \o SubSeq(list, at + 1, Len(list))

_handle_admin_add(args, st, validation, read_ok, save_outcome) ==
    LET new_admin == StripUpper(args[1])
        current_admins == load_admins_from_file(st.file, read_ok)
        saved == save_admins_to_file(st.file, Append(current_admins, new_admin), save_outcome)
    IN  IF validation # "ok" THEN [said |-> "not found", st |-> st]
        ELSE IF new_admin \in Range(current_admins) THEN [said |-> "is already an admin", st |-> st]
        ELSE IF saved.ok
        THEN [said |-> "Added",
              st |-> [st EXCEPT !.admin_users = Append(current_admins, new_admin),
                                !.file = saved.file]]
        ELSE [said |-> "Failed to add", st |-> [st EXCEPT !.file = saved.file]]

_handle_admin_remove(args, st, read_ok, save_outcome) ==
    LET admin_to_remove == StripUpper(args[1])
        current_admins == load_admins_from_file(st.file, read_ok)
        saved == save_admins_to_file(st.file, ListRemove(current_admins, admin_to_remove),
                                     save_outcome)
    IN  IF admin_to_remove \notin Range(current_admins)
        THEN [said |-> "is not in the admin list", st |-> st]
        ELSE IF saved.ok
        THEN [said |-> "Removed",
              st |-> [st EXCEPT !.admin_users = ListRemove(current_admins, admin_to_remove),
                                !.file = saved.file]]
        ELSE [said |-> "Failed to remove", st |-> [st EXCEPT !.file = saved.file]]

\* the keys of BOT_PERSONALITIES
BOT_PERSONALITIES == {"standard", "mystic_dog", "custom"}

\* set_current_personality and _handle_personality
_handle_personality(args, st) ==
    IF args = <<>> THEN [said |-> "Current bot personality", st |-> st]
    ELSE IF args[1] \notin BOT_PERSONALITIES THEN [said |-> "Unknown personality", st |-> st]
    ELSE [said |-> "Bot personality changed", st |-> [st EXCEPT !.personality = args[1]]]

handle_admin_command(subcommand, args, st, validation, read_ok, save_outcome) ==
    IF subcommand = "list" THEN [said |-> "Configured Admin Users", st |-> st]
    ELSE IF subcommand = "add" /\ args # <<>>
    THEN _handle_admin_add(args, st, validation, read_ok, save_outcome)
    ELSE IF subcommand = "remove" /\ args # <<>>
    THEN _handle_admin_remove(args, st, read_ok, save_outcome)
    ELSE IF subcommand = "personality" THEN _handle_personality(args, st)
    ELSE IF subcommand = "status" THEN [said |-> "status", st |-> st]
    ELSE [said |-> "Unknown admin command", st |-> st]

\* the admin branch of handle_command without its permission check
handle_command_unchecked(parts, user_id, lookup, st, validation, read_ok, save_outcome) ==
    IF Len(parts) <= 1 THEN [said |-> "help", st |-> st]
    ELSE IF parts[2] = "help"
    THEN [said |-> IF is_admin(user_id, st.admin_users, lookup) = "True"
                   THEN "Admin Commands"
                   ELSE IF is_admin(user_id, st.admin_users, lookup) = "False"
                   THEN "You don't have permission to view admin commands."
                   ELSE "raise",
          st |-> st]
    ELSE handle_admin_command(parts[2], SubSeq(parts, 3, Len(parts)), st, validation, read_ok,
                              save_outcome)

\* handle_command for a text that starts with admin: lines 32-51
handle_command(parts, user_id, lookup, st, validation, read_ok, save_outcome) ==
    IF Len(parts) <= 1 THEN [said |-> "help", st |-> st]
    ELSE IF parts[2] = "help"
    THEN [said |-> IF is_admin(user_id, st.admin_users, lookup) = "True"
                   THEN "Admin Commands"
                   ELSE IF is_admin(user_id, st.admin_users, lookup) = "False"
                   THEN "You don't have permission to view admin commands."
                   ELSE "raise",
          st |-> st]
    ELSE IF is_admin(user_id, st.admin_users, lookup) = "raise" THEN [said |-> "raise", st |-> st]
    ELSE IF is_admin(user_id, st.admin_users, lookup) = "False"
    THEN [said |-> "You don't have permission to use admin commands", st |-> st]
    ELSE handle_admin_command(parts[2], SubSeq(parts, 3, Len(parts)), st, validation, read_ok,
                              save_outcome)

\* text.strip().lower().split() of a message that starts with admin
AdminParts ==
    { <<"admin">>, <<"admin", "help">>, <<"admin", "list">>, <<"admin", "add">>,
      <<"admin", "status">>, <<"admin", "personality">> }
    \cup { <<"admin", c, a>> : c \in {"add", "remove"}, a \in {"u1", "<@u2>", "u9"} }
    \cup { <<"admin", "personality", a>> : a \in {"mystic_dog", "standard", "nope"} }

\* the config commands sent beside the admin commands
AdminConfigParts ==
    { <<"config">>, <<"config", "list", "false">>, <<"config", "stats", "true">>,
      <<"config", "stats", "false">> }

\* the state after initialize_config saved or loaded the list
InitAdmin ==
    /\ InitConcurrentIdle
    /\ InitDateIdle
    /\ InitCompletionIdle
    /\ InitStorageIdle
    /\ InitRemindIdle
    /\ InitDailyIdle
    /\ InitParseIdle
    /\ InitListIdle
    /\ COMMAND_PERMISSIONS = DefaultPermissions
    /\ ADMIN_USERS \in AdminLists
    /\ admins_file = AdminsFile(ADMIN_USERS)
    /\ current_personality = "standard"
    /\ cfg_count = 0
    /\ cfg_request = NoRequest
    /\ cfg_before = DefaultPermissions
    /\ cfg_said = "none"

\* bound on the number of admin commands
MaxAdminCommands == 2

\* a user sends an admin command; users_info knows the user to add and the
\* admins file is read and written without a fault
AdminCommand ==
    /\ cfg_count < MaxAdminCommands
    /\ \E user_id \in Users, lookup \in AdminLookups, parts \in AdminParts :
          LET r == handle_command(parts, user_id, lookup,
                                  AdminState(ADMIN_USERS, admins_file, current_personality),
                                  IF StripUpper(parts[Len(parts)]) = "U9" THEN "not_ok" ELSE "ok",
                                  TRUE, "ok")
          IN  /\ ADMIN_USERS' = r.st.admin_users
              /\ admins_file' = r.st.file
              /\ current_personality' = r.st.personality
              /\ cfg_said' = r.said
              /\ cfg_request' = [user |-> user_id, lookup |-> lookup, parts |-> parts]
    /\ cfg_before' = COMMAND_PERMISSIONS
    /\ cfg_count' = cfg_count + 1
    /\ UNCHANGED COMMAND_PERMISSIONS
    /\ UNCHANGED <<dateVars, compVars, dailyVars, parseVars, listVars, concVars,
                   storageVars, remindVars>>

\* a user sends a config command
AdminConfigCommand ==
    /\ cfg_count < MaxAdminCommands
    /\ \E user_id \in Users, lookup \in AdminLookups, parts \in AdminConfigParts :
          LET r == handle_config_command(parts, user_id, COMMAND_PERMISSIONS, ADMIN_USERS,
                                         lookup)
          IN  /\ COMMAND_PERMISSIONS' = r.permissions
              /\ cfg_said' = r.said
              /\ cfg_request' = [user |-> user_id, lookup |-> lookup, parts |-> parts]
    /\ cfg_before' = COMMAND_PERMISSIONS
    /\ cfg_count' = cfg_count + 1
    /\ UNCHANGED <<ADMIN_USERS, admins_file, current_personality>>
    /\ UNCHANGED <<dateVars, compVars, dailyVars, parseVars, listVars, concVars,
                   storageVars, remindVars>>

NextAdmin ==
    \/ AdminCommand
    \/ AdminConfigCommand

SpecAdmin == InitAdmin /\ [][NextAdmin]_vars

\* admin add and admin remove with their arguments
AdminListParts ==
    { <<"admin", c, a>> : c \in {"add", "remove"}, a \in {"u1", "<@u2>", "u9"} }

\* a workspace admin sends admin add or admin remove; users_info, the read
\* and the write of the admins file end in any of their ways
AdminListCommand ==
    /\ cfg_count < MaxAdminCommands
    /\ \E parts \in AdminListParts, validation \in Validations, read_ok \in BOOLEAN,
          save_outcome \in SaveOutcomes :
          LET r == handle_command(parts, "U1", "admin",
                                  AdminState(ADMIN_USERS, admins_file, current_personality),
                                  validation, read_ok, save_outcome)
          IN  /\ ADMIN_USERS' = r.st.admin_users
              /\ admins_file' = r.st.file
              /\ current_personality' = r.st.personality
              /\ cfg_said' = r.said
              /\ cfg_request' = [user |-> "U1", lookup |-> "admin", parts |-> parts]
    /\ cfg_before' = COMMAND_PERMISSIONS
    /\ cfg_count' = cfg_count + 1
    /\ UNCHANGED COMMAND_PERMISSIONS
    /\ UNCHANGED <<dateVars, compVars, dailyVars, parseVars, listVars, concVars,
                   storageVars, remindVars>>

NextAdminList == AdminListCommand

SpecAdminList == InitAdmin /\ [][NextAdminList]_vars

(***************************************************************************)
(* handlers/commands/list_commands.py: the entry of one record in the      *)
(* output of the list command.                                             *)
(***************************************************************************)
\* lines 66-83: age_text of a record.  birthday_this_year is midnight of the
\* birthday; reference_date carries the time of day.
list_age_text(record_date, year, ref, time) ==
    LET day == SplitDate(record_date).day
        month == SplitDate(record_date).month
        next_birthday_year == ref.year
    IN  IF year = NoYear THEN NoAge
        ELSE IF ~ValidDate(next_birthday_year, month, day)
        THEN [kind |-> "age", value |-> ref.year - year]
        ELSE IF \/ Ordinal(Date(next_birthday_year, month, day)) < Ordinal(ref)
                \/ /\ Ordinal(Date(next_birthday_year, month, day)) = Ordinal(ref)
                   /\ time # "midnight"
        THEN [kind |-> "turning", value |-> next_birthday_year + 1 - year]
        ELSE [kind |-> "turning", value |-> next_birthday_year - year]

\* reference dates around the birthdays and the turn of the year
ListReferenceDates ==
    {dt \in ReferenceDates : dt.month \in {1, 2, 3, 12} /\ dt.day \in {1, 15, 28, 29, 31}}

ListBirthYears == {NoYear, 1990, 2000}

InitList ==
    /\ InitConfigIdle
    /\ InitConcurrentIdle
    /\ InitDateIdle
    /\ InitCompletionIdle
    /\ InitStorageIdle
    /\ InitRemindIdle
    /\ InitDailyIdle
    /\ InitParseIdle
    /\ l_pc = "input"
    /\ bdate \in {FormatDate(dm[1], dm[2]) : dm \in BirthdayDays}
    /\ birth_year \in ListBirthYears
    /\ l_reference_date \in ListReferenceDates
    /\ l_time \in {"midnight", "later"}
    /\ l_days_until = NoResult
    /\ age_text = NoAge
    /\ InitListOrderIdle

\* lines 51-83: one pass of the loop over the records
ListEntry ==
    /\ l_pc = "input"
    /\ l_pc' = "listed"
    /\ l_days_until' = calculate_days_until_birthday(bdate, l_reference_date)
    /\ age_text' = list_age_text(bdate, birth_year, l_reference_date, l_time)
    /\ UNCHANGED <<bdate, birth_year, l_reference_date, l_time>>
    /\ UNCHANGED <<l_birthdays, l_all, birthday_list, l_shown>>
    /\ UNCHANGED <<dateVars, compVars, dailyVars, parseVars, configVars, concVars,
                   storageVars, remindVars>>

NextList == ListEntry

SpecList == InitList /\ [][NextList]_vars

(***************************************************************************)
(* handlers/commands/list_commands.py: handle_list_command, the order of   *)
(* the entries and the entries shown.                                      *)
(***************************************************************************)
\* lines 51-100: the entry of a record; sort_key is days_until for the
\* regular list and month * 100 + day for list all
list_entry(uid, record_date, ref, list_all) ==
    [uid |-> uid, bdate |-> record_date,
     sort_key |-> IF list_all
                  THEN SplitDate(record_date).month * 100 + SplitDate(record_date).day
                  ELSE calculate_days_until_birthday(record_date, ref).days,
     month |-> SplitDate(record_date).month, day |-> SplitDate(record_date).day]

\* the loop over birthdays.items()
RECURSIVE build_birthday_list(_, _, _)
build_birthday_list(records, ref, list_all) ==
    IF records = <<>> THEN <<>>
    ELSE Append(build_birthday_list(SubSeq(records, 1, Len(records) - 1), ref, list_all),
                list_entry(records[Len(records)].uid, records[Len(records)].date, ref, list_all))

\* key=lambda x: (x[6], x[7])
MonthDayBefore(a, b) == a.month < b.month \/ (a.month = b.month /\ a.day < b.day)

\* key=lambda x: x[4]
SortKeyBefore(a, b) == a.sort_key < b.sort_key

\* list.sort puts x before e when key(x) < key(e); equal keys keep their order
InsertStable(sorted, x, by_month_day) ==
    LET later == {i \in 1..Len(sorted) :
                     IF by_month_day THEN MonthDayBefore(x, sorted[i])
                     ELSE SortKeyBefore(x, sorted[i])}
        at == IF later = {} THEN Len(sorted) + 1 ELSE Min(later)
    IN  SubSeq(sorted, 1, at - 1) \o <<x>> \o SubSeq(sorted, at, Len(sorted))

RECURSIVE SortStable(_, _)
SortStable(list, by_month_day) ==
    IF list = <<>> THEN <<>>
    ELSE InsertStable(SortStable(SubSeq(list, 1, Len(list) - 1), by_month_day),
                      list[Len(list)], by_month_day)

\* one strategy for both commands: by month and day
sort_birthday_list_unified(list, list_all) == SortStable(list, TRUE)

\* lines 102-110: the two sort strategies
sort_birthday_list(list, list_all) ==
    IF list_all THEN SortStable(list, TRUE) ELSE SortStable(list, FALSE)

\* a reply that shows every entry
format_birthday_list_untruncated(list, list_all) ==
    IF list_all THEN [raised |-> FALSE, entries |-> list]
    ELSE IF \E i \in 1..Len(list) : date_to_words(list[i].bdate, NoYear).raised
    THEN [raised |-> TRUE, entries |-> <<>>]
    ELSE [raised |-> FALSE, entries |-> list]

\* lines 115-159: list all shows every entry; the regular list shows
\* birthday_list[:10], and date_to_words of an entry may raise
format_birthday_list(list, list_all) ==
    LET first10 == SubSeq(list, 1, IF Len(list) < 10 THEN Len(list) ELSE 10)
    IN  IF list_all THEN [raised |-> FALSE, entries |-> list]
        ELSE IF \E i \in 1..Len(first10) : date_to_words(first10[i].bdate, NoYear).raised
        THEN [raised |-> TRUE, entries |-> <<>>]
        ELSE [raised |-> FALSE, entries |-> first10]

\* the dates of the records of a birthdays file, in file order
ListStoreDates ==
    << FormatDate(15, 6), FormatDate(28, 2), FormatDate(1, 3), FormatDate(31, 12),
       FormatDate(1, 1), FormatDate(28, 2), FormatDate(10, 10), FormatDate(2, 3),
       FormatDate(27, 2), FormatDate(30, 11), FormatDate(1, 3), FormatDate(29, 2) >>

\* the file with its records rotated by k, cut after n records
ListStore(k, n) ==
    [i \in 1..n |-> [uid |-> i, date |-> ListStoreDates[((i + k - 1) % Len(ListStoreDates)) + 1]]]

ListStores == { ListStore(k, n) : k \in 0..(Len(ListStoreDates) - 1), n \in {1, 3, 10, 11, 12} }

\* datetime.now(timezone.utc) of the command
ListOrderDates ==
    { Date(2096, 2, 27), Date(2096, 2, 28), Date(2096, 2, 29), Date(2096, 3, 1),
      Date(2097, 3, 1), Date(2099, 12, 31) }

InitListOrder ==
    /\ InitConfigIdle
    /\ InitConcurrentIdle
    /\ InitDateIdle
    /\ InitCompletionIdle
    /\ InitStorageIdle
    /\ InitRemindIdle
    /\ InitDailyIdle
    /\ InitParseIdle
    /\ l_pc = "command"
    /\ bdate = FormatDate(1, 1)
    /\ birth_year = NoYear
    /\ l_reference_date \in ListOrderDates
    /\ l_time = "midnight"
    /\ l_days_until = NoResult
    /\ age_text = NoAge
    /\ l_birthdays \in ListStores
    /\ l_all \in BOOLEAN
    /\ birthday_list = <<>>
    /\ l_shown = NotShown

\* lines 48-110: the list is built and sorted
ListSort ==
    /\ l_pc = "command"
    /\ l_pc' = "sorted"
    /\ birthday_list' = sort_birthday_list(
                            build_birthday_list(l_birthdays, l_reference_date, l_all), l_all)
    /\ UNCHANGED <<bdate, birth_year, l_reference_date, l_time, l_days_until, age_text,
                   l_birthdays, l_all, l_shown>>
    /\ UNCHANGED <<dateVars, compVars, dailyVars, parseVars, configVars, concVars,
                   storageVars, remindVars>>

\* lines 112-161: the reply
ListSay ==
    /\ l_pc = "sorted"
    /\ l_pc' = "said"
    /\ l_shown' = format_birthday_list(birthday_list, l_all)
    /\ UNCHANGED <<bdate, birth_year, l_reference_date, l_time, l_days_until, age_text,
                   l_birthdays, l_all, birthday_list>>
    /\ UNCHANGED <<dateVars, compVars, dailyVars, parseVars, configVars, concVars,
                   storageVars, remindVars>>

NextListOrder ==
    \/ ListSort
    \/ ListSay

SpecListOrder == InitListOrder /\ [][NextListOrder]_vars

(***************************************************************************)
(* extract_date on bounded messages, and get_star_sign of what it found.   *)
(***************************************************************************)
\* day and month fields around the ends of the months, with fields that are
\* no day or no month
ParseDays == {0, 1, 28, 29, 30, 31, 32}

ParseMonths == {0, 1, 2, 4, 12, 13}

\* what follows DD/MM: nothing, a year, two or five digits, text
ParseSuffixes ==
    { <<>>, <<"/", "1", "9", "0", "0">>, <<"/", "2", "0", "0", "0">>,
      <<"/", "2", "0", "0", "1">>, <<"/", "0", "0", "0", "0">>, <<"/", "2", "0">>,
      <<"/", "2", "0", "0", "0", "5">>, <<" ", "x">>, <<"x">> }

\* what precedes DD/MM: nothing, a word, a digit
ParsePrefixes == { <<>>, <<"x", " ">>, <<"x">>, <<"1">> }

\* bare dates and year-qualified dates of messages that hold one of each
BareDates == { FormatDate(1, 1), FormatDate(28, 2), FormatDate(31, 2), FormatDate(2, 4) }

YearDates ==
    { FormatDate(dm[1], dm[2]) \o <<"/">> \o y :
          dm \in { <<2, 4>>, <<29, 2>>, <<31, 2>>, <<31, 12>> },
          y \in { <<"2", "0", "0", "0">>, <<"2", "0", "0", "1">> } }

\* a bare date and a year-qualified date, in either order, with text between
TwoDateMessages ==
    { pre \o (IF bare_first THEN a \o sep \o b ELSE b \o sep \o a) \o suf :
          pre \in { <<>>, <<"x", " ">> }, sep \in { <<" ">>, <<" ", "x", " ">> },
          suf \in { <<>>, <<" ", "x">> },
          a \in BareDates, b \in YearDates, bare_first \in BOOLEAN }

Messages ==
    { pre \o FormatDate(d, m) \o suf :
          pre \in ParsePrefixes, d \in ParseDays, m \in ParseMonths, suf \in ParseSuffixes }
    \cup { FormatDate(d, m) \o <<"/", "2", "0", "0", "0">> :
              d \in 1..31, m \in 1..12 }
    \cup TwoDateMessages

InitParse ==
    /\ InitListIdle
    /\ InitConfigIdle
    /\ InitConcurrentIdle
    /\ InitDateIdle
    /\ InitCompletionIdle
    /\ InitStorageIdle
    /\ InitRemindIdle
    /\ InitDailyIdle
    /\ p_pc = "input"
    /\ message \in Messages
    /\ extracted = NoExtract
    /\ star_sign = "none"

\* result = extract_date(message)
ExtractDate ==
    /\ p_pc = "input"
    /\ p_pc' = "extracted"
    /\ extracted' = extract_date(message)
    /\ UNCHANGED <<message, star_sign>>
    /\ UNCHANGED <<dateVars, compVars, dailyVars, listVars, configVars, concVars,
                   storageVars, remindVars>>

\* get_star_sign(date) for a date that was accepted
StarSign ==
    /\ p_pc = "extracted"
    /\ extracted.status = "success"
    /\ p_pc' = "signed"
    /\ star_sign' = get_star_sign(extracted.date)
    /\ UNCHANGED <<message, extracted>>
    /\ UNCHANGED <<dateVars, compVars, dailyVars, listVars, configVars, concVars,
                   storageVars, remindVars>>

NextParse ==
    \/ ExtractDate
    \/ StarSign

SpecParse == InitParse /\ [][NextParse]_vars

(***************************************************************************)
(* completion(): the retry loop, one action per pass.                      *)
(***************************************************************************)
\* raw texts of the generative backend for the subject U1
Replies ==
    { get_user_mention("U1") \o <<" ", "w", " ">> \o ChannelToken,
      <<"w", " ">> \o ChannelToken,
      get_user_mention("U1") \o <<" ", "w">>,
      <<"w">>,
      <<"*", "*">> \o get_user_mention("U1") \o <<"*", "*", " ">> \o ChannelToken,
      <<"<", "w", " ">> \o get_user_mention("U1") \o <<" ", "w", ">", " ">> \o ChannelToken,
      get_user_mention("U2") \o <<" ">> \o ChannelToken }

BackendOutcomes ==
    [raises : {FALSE}, reply : Replies, pick : {1}]
    \cup [raises : {TRUE}, reply : {<<>>}, pick : 1..Len(BACKUP_MESSAGES)]

CompletionArgs ==
    [name : {"Ann"}, date : {"date words"}, user_id : {None, "U1"},
     birth_date : {NoDate, FormatDate(25, 12)}, birth_year : {NoYear, 1990},
     max_retries : (-1)..MaxRetriesBound, now_year : {2024}]

InitCompletion ==
    /\ InitListIdle
    /\ InitConfigIdle
    /\ InitConcurrentIdle
    /\ InitDateIdle
    /\ InitDailyIdle
    /\ InitParseIdle
    /\ InitCompletionIdle
    /\ InitStorageIdle
    /\ InitRemindIdle

\* lines 361-417: the prompt is built and the loop entered
CompletionStart ==
    /\ c_pc = "idle"
    /\ \E args \in CompletionArgs :
          /\ c_args' = args
          /\ template' = InitialTemplate(args.name, args.date, args.user_id,
                                         args.birth_date, args.birth_year, args.now_year)
    /\ c_pc' = "loop"
    /\ retry_count' = 0
    /\ UNCHANGED <<c_calls, c_raise_call, c_exit, c_result, c_last_reply>>
    /\ UNCHANGED dateVars
    /\ UNCHANGED <<dailyVars, parseVars, listVars, configVars, concVars,
                   storageVars, remindVars>>

\* get_template(): str.format raises on a personality template with a stray brace
CompletionTemplateRaises ==
    /\ c_pc = "idle"
    /\ c_pc' = "raised"
    /\ \E args \in CompletionArgs : c_args' = args
    /\ UNCHANGED <<template, retry_count, c_calls, c_raise_call, c_exit, c_result,
                   c_last_reply>>
    /\ UNCHANGED dateVars
    /\ UNCHANGED <<dailyVars, parseVars, listVars, configVars, concVars,
                   storageVars, remindVars>>

\* one pass of the loop with the given behaviour of the backend
CompletionPass(outcome) ==
    /\ c_pc = "loop"
    /\ retry_count <= c_args.max_retries
    /\ LET it == LoopIteration(c_args, template, retry_count, outcome)
       IN  /\ template' = it.template
           /\ retry_count' = it.retry_count
           /\ c_calls' = c_calls + 1
           /\ c_raise_call' = IF outcome.raises THEN c_calls + 1 ELSE c_raise_call
           /\ c_last_reply' = IF outcome.raises THEN c_last_reply ELSE outcome.reply
           /\ IF it.exit = "retry"
              THEN UNCHANGED <<c_pc, c_exit, c_result>>
              ELSE /\ c_pc' = "returned"
                   /\ c_exit' = it.exit
                   /\ c_result' = it.text
    /\ UNCHANGED c_args
    /\ UNCHANGED dateVars
    /\ UNCHANGED <<dailyVars, parseVars, listVars, configVars, concVars,
                   storageVars, remindVars>>

BackendReturns == \E o \in BackendOutcomes : ~o.raises /\ CompletionPass(o)

BackendRaises == \E o \in BackendOutcomes : o.raises /\ CompletionPass(o)

\* lines 495-497: the loop condition is false
UnexpectedFlow ==
    /\ c_pc = "loop"
    /\ retry_count > c_args.max_retries
    /\ IF c_args.birth_date = NoDate
       THEN \* date_str.split on None: AttributeError is not caught
            /\ c_pc' = "raised"
            /\ UNCHANGED <<c_exit, c_result>>
       ELSE /\ c_pc' = "returned"
            /\ c_exit' = "unexpected"
            /\ \E intro \in 1..Len(BIRTHDAY_INTROS) :
                  c_result' = create_birthday_announcement(c_args.user_id, c_args.name,
                                  c_args.birth_date, c_args.birth_year, c_args.now_year, intro)
    /\ UNCHANGED <<c_args, template, retry_count, c_calls, c_raise_call, c_last_reply>>
    /\ UNCHANGED dateVars
    /\ UNCHANGED <<dailyVars, parseVars, listVars, configVars, concVars,
                   storageVars, remindVars>>

NextCompletion ==
    \/ CompletionStart
    \/ CompletionTemplateRaises
    \/ BackendReturns
    \/ BackendRaises
    \/ UnexpectedFlow

SpecCompletion == InitCompletion /\ [][NextCompletion]_vars

(***************************************************************************)
(* services/birthday.py: daily(), one action per step of a run, and the    *)
(* clock.                                                                  *)
(***************************************************************************)
\* records the store can hold, with and without a year; 29/02 is accepted
\* only together with a year
StoreEntries ==
    { [date |-> FormatDate(28, 2), year |-> NoYear],
      [date |-> FormatDate(29, 2), year |-> 2000],
      [date |-> FormatDate(1, 3), year |-> 2000] }

StoreRecords == {[user |-> u, date |-> e.date, year |-> e.year] : u \in Users, e \in StoreEntries}

\* one record per user, in file order; of two stores that differ only by
\* swapping the two user ids, the one with U1 first
Stores ==
    { <<>> }
    \cup { <<r>> : r \in StoreRecords }
    \cup { st \in { <<r1, r2>> : r1 \in StoreRecords, r2 \in StoreRecords } :
              st[1].user = "U1" /\ st[2].user = "U2" }

InitDaily ==
    /\ InitListIdle
    /\ InitConfigIdle
    /\ InitConcurrentIdle
    /\ InitDateIdle
    /\ InitCompletionIdle
    /\ InitStorageIdle
    /\ InitRemindIdle
    /\ InitParseIdle
    /\ birthdays \in Stores
    /\ tracking = [d \in Days |-> NoFile]
    /\ today = 1
    /\ d_pc = "idle"
    /\ moment = 1
    /\ loaded = <<>>
    /\ already_announced = <<>>
    /\ idx = 1
    /\ birthday_count = 0
    /\ runs = 0
    /\ delivered_today = [u \in Users |-> 0]
    /\ run_attempted = {}
    /\ run_failed = {}
    /\ run_delivered = {}
    /\ run_log = <<>>
    /\ day_runs = "none"
    /\ raise_cause = "none"
    /\ last_cleanup = "none"
    /\ last_removed = 0
    /\ ledger_day = 0
    /\ last_fault = "none"

\* the step taken is not cleanup
NotCleanup ==
    /\ last_cleanup' = "none"
    /\ last_removed' = 0

\* a run that consults the announced list without cleaning up first
DailyStart_straight_to_read ==
    /\ d_pc \in {"idle", "done", "raised"}
    /\ runs < MaxRuns
    /\ \E m \in Days :
          /\ m \in (today - 1)..(today + 1)
          /\ moment' = m
          /\ day_runs' = IF day_runs # "faulty" /\ m = today THEN "clean" ELSE "faulty"
    /\ loaded' = birthdays
    /\ d_pc' = "read"
    /\ already_announced' = <<>>
    /\ idx' = 1
    /\ birthday_count' = 0
    /\ runs' = runs + 1
    /\ run_attempted' = {}
    /\ run_failed' = {}
    /\ run_delivered' = {}
    /\ run_log' = <<>>
    /\ raise_cause' = "none"
    /\ NotCleanup
    /\ ledger_day' = 0
    /\ last_fault' = "none"
    /\ UNCHANGED <<birthdays, tracking, today, delivered_today>>
    /\ UNCHANGED <<dateVars, compVars, parseVars, listVars, configVars, concVars,
                   storageVars, remindVars>>

\* lines 122-137: daily(app, moment) is called and loads the store.  moment is
\* the current instant in UTC, the clock of the ledger is local time: their
\* days are at most one apart.
DailyStart ==
    /\ d_pc \in {"idle", "done", "raised"}
    /\ runs < MaxRuns
    /\ \E m \in Days :
          /\ m \in (today - 1)..(today + 1)
          /\ moment' = m
          /\ day_runs' = IF day_runs # "faulty" /\ m = today THEN "clean" ELSE "faulty"
    /\ loaded' = birthdays
    /\ d_pc' = "cleanup"
    /\ already_announced' = <<>>
    /\ idx' = 1
    /\ birthday_count' = 0
    /\ runs' = runs + 1
    /\ run_attempted' = {}
    /\ run_failed' = {}
    /\ run_delivered' = {}
    /\ run_log' = <<>>
    /\ raise_cause' = "none"
    /\ NotCleanup
    /\ ledger_day' = 0
    /\ last_fault' = "none"
    /\ UNCHANGED <<birthdays, tracking, today, delivered_today>>
    /\ UNCHANGED <<dateVars, compVars, parseVars, listVars, configVars, concVars,
                   storageVars, remindVars>>

\* line 140: cleanup_old_announcement_files().  It removes every stale file,
\* or an exception ends it early and some stale file may be left.
DailyCleanup ==
    /\ d_pc = "cleanup"
    /\ \E failed \in BOOLEAN, removed \in SUBSET StaleFiles(tracking, today) :
          /\ ~failed => removed = StaleFiles(tracking, today)
          /\ tracking' = cleanup_old_announcement_files(tracking, removed)
          /\ last_cleanup' = IF failed THEN "failed" ELSE "ok"
          /\ last_removed' = Cardinality(removed)
          /\ day_runs' = IF failed THEN "faulty" ELSE day_runs
    /\ d_pc' = "read"
    /\ run_log' = Append(run_log, "cleanup")
    /\ ledger_day' = today
    /\ last_fault' = "none"
    /\ UNCHANGED <<birthdays, today, moment, loaded, already_announced, idx, birthday_count,
                   runs, delivered_today, run_attempted, run_failed, run_delivered, raise_cause>>
    /\ UNCHANGED <<dateVars, compVars, parseVars, listVars, configVars, concVars,
                   storageVars, remindVars>>

\* line 143: already_announced = get_announced_birthdays_today()
DailyReadAnnounced ==
    /\ d_pc = "read"
    /\ \E read_ok \in BOOLEAN :
          /\ already_announced' = get_announced_birthdays_today(tracking, today, read_ok)
          /\ day_runs' = IF read_ok THEN day_runs ELSE "faulty"
          /\ last_fault' = IF read_ok THEN "none" ELSE "read_failed"
    /\ d_pc' = "scan"
    /\ run_log' = Append(run_log, "read")
    /\ ledger_day' = today
    /\ NotCleanup
    /\ UNCHANGED <<birthdays, tracking, today, moment, loaded, idx, birthday_count, runs,
                   delivered_today, run_attempted, run_failed, run_delivered, raise_cause>>
    /\ UNCHANGED <<dateVars, compVars, parseVars, listVars, configVars, concVars,
                   storageVars, remindVars>>

\* lines 148-151: the subject is in already_announced
DailySkipAnnounced ==
    /\ d_pc = "scan"
    /\ idx <= Len(loaded)
    /\ loaded[idx].user \in Range(already_announced)
    /\ birthday_count' = birthday_count + 1
    /\ idx' = idx + 1
    /\ NotCleanup
    /\ last_fault' = "none"
    /\ UNCHANGED <<ledger_day, run_log>>
    /\ UNCHANGED <<birthdays, tracking, today, d_pc, moment, loaded, already_announced, runs,
                   delivered_today, run_attempted, run_failed, run_delivered, day_runs,
                   raise_cause>>
    /\ UNCHANGED <<dateVars, compVars, parseVars, listVars, configVars, concVars,
                   storageVars, remindVars>>

\* line 154: check_if_birthday_today is false, the loop goes on
DailyNotToday ==
    /\ d_pc = "scan"
    /\ idx <= Len(loaded)
    /\ loaded[idx].user \notin Range(already_announced)
    /\ ~check_if_birthday_today(loaded[idx].date, DayDate(moment))
    /\ idx' = idx + 1
    /\ NotCleanup
    /\ last_fault' = "none"
    /\ UNCHANGED <<ledger_day, run_log>>
    /\ UNCHANGED <<birthdays, tracking, today, d_pc, moment, loaded, already_announced,
                   birthday_count, runs, delivered_today, run_attempted, run_failed, run_delivered,
                   day_runs,
                   raise_cause>>
    /\ UNCHANGED <<dateVars, compVars, parseVars, listVars, configVars, concVars,
                   storageVars, remindVars>>

PostsOk(posts) == Cardinality({k \in 1..Len(posts) : posts[k].ok})

PostsFailed(posts) == Cardinality({k \in 1..Len(posts) : ~posts[k].ok})

\* lines 154-171: the announce step for one subject
DailyAnnounce ==
    /\ d_pc = "scan"
    /\ idx <= Len(loaded)
    /\ loaded[idx].user \notin Range(already_announced)
    /\ check_if_birthday_today(loaded[idx].date, DayDate(moment))
    /\ birthday_count' = birthday_count + 1
    /\ NotCleanup
    /\ \E lookup \in ClientOutcomes, completion_raises \in BOOLEAN,
          outcome1 \in ClientOutcomes, outcome2 \in ClientOutcomes, write_ok \in BOOLEAN :
          LET user_id == loaded[idx].user
              username == get_username(user_id, lookup)
              date_words == date_to_words(loaded[idx].date, loaded[idx].year)
              sent == send_birthday_announcement(completion_raises, outcome1, outcome2)
          IN  IF username.raised \/ date_words.raised
              THEN /\ d_pc' = "raised"
                   /\ raise_cause' = IF username.raised THEN "lookup" ELSE "date_to_words"
                   /\ day_runs' = IF username.raised THEN "faulty" ELSE day_runs
                   /\ last_fault' = "none"
                   /\ UNCHANGED <<tracking, idx, delivered_today, run_attempted, run_failed,
                                  run_delivered, ledger_day, run_log>>
              ELSE /\ run_attempted' = run_attempted \cup {user_id}
                   /\ run_failed' = IF PostsFailed(sent.posts) > 0
                                    THEN run_failed \cup {user_id} ELSE run_failed
                   /\ run_delivered' = IF PostsOk(sent.posts) > 0
                                       THEN run_delivered \cup {user_id} ELSE run_delivered
                   /\ delivered_today' =
                         [delivered_today EXCEPT ![user_id] = @ + PostsOk(sent.posts)]
                   /\ IF sent.raised
                      THEN /\ d_pc' = "raised"
                           /\ raise_cause' = "delivery"
                           /\ day_runs' = "faulty"
                           /\ last_fault' = "none"
                           /\ run_log' = Append(run_log, "announce")
                           /\ UNCHANGED <<tracking, idx, ledger_day>>
                      ELSE /\ tracking' = mark_birthday_announced(tracking, today, user_id,
                                                                  write_ok)
                           /\ idx' = idx + 1
                           /\ run_log' = run_log \o <<"announce", "mark">>
                           /\ ledger_day' = today
                           /\ last_fault' = IF write_ok THEN "none" ELSE "write_failed"
                           /\ day_runs' = IF write_ok /\ lookup = "ok"
                                              /\ PostsFailed(sent.posts) = 0
                                           THEN day_runs ELSE "faulty"
                           /\ UNCHANGED <<d_pc, raise_cause>>
    /\ UNCHANGED <<birthdays, today, moment, loaded, already_announced, runs>>
    /\ UNCHANGED <<dateVars, compVars, parseVars, listVars, configVars, concVars,
                   storageVars, remindVars>>

\* lines 173-176: the loop is over, birthday_count is returned
DailyDone ==
    /\ d_pc = "scan"
    /\ idx > Len(loaded)
    /\ d_pc' = "done"
    /\ NotCleanup
    /\ last_fault' = "none"
    /\ UNCHANGED <<ledger_day, run_log>>
    /\ UNCHANGED <<birthdays, tracking, today, moment, loaded, already_announced, idx,
                   birthday_count, runs, delivered_today, run_attempted, run_failed, run_delivered,
                   day_runs,
                   raise_cause>>
    /\ UNCHANGED <<dateVars, compVars, parseVars, listVars, configVars, concVars,
                   storageVars, remindVars>>

\* the clock passes midnight; a run that is under way goes on
Midnight ==
    /\ today < MaxDays
    /\ today' = today + 1
    /\ delivered_today' = [u \in Users |-> 0]
    /\ day_runs' = IF d_pc \in {"idle", "done", "raised"} THEN "none" ELSE "faulty"
    /\ NotCleanup
    /\ last_fault' = "none"
    /\ UNCHANGED <<ledger_day, run_log>>
    /\ UNCHANGED <<birthdays, tracking, d_pc, moment, loaded, already_announced, idx,
                   birthday_count, runs, run_attempted, run_failed, run_delivered, raise_cause>>
    /\ UNCHANGED <<dateVars, compVars, parseVars, listVars, configVars, concVars,
                   storageVars, remindVars>>

Next ==
    \/ DailyStart
    \/ DailyCleanup
    \/ DailyReadAnnounced
    \/ DailySkipAnnounced
    \/ DailyNotToday
    \/ DailyAnnounce
    \/ DailyDone
    \/ Midnight

Spec == InitDaily /\ [][Next]_vars

(***************************************************************************)
(* Two daily() runs at once on one day: no lock guards the tracking        *)
(* directory.  The clock stays on the day of moment and no call fails, so  *)
(* that what is seen comes from the interleaving alone.                    *)
(***************************************************************************)
\* an entry of k_log: who did what for which subject on which day of the clock
Event(p, op, user_id) == [proc |-> p, op |-> op, user |-> user_id, day |-> today]

\* lines 122-137: the instance starts its run and loads the store
ConcurrentStart(p) ==
    /\ k_pc[p] = "idle"
    /\ k_pc' = [k_pc EXCEPT ![p] = "cleanup"]
    /\ k_loaded' = [k_loaded EXCEPT ![p] = birthdays]
    /\ UNCHANGED <<k_announced, k_idx, k_counted, adds, k_log>>
    /\ UNCHANGED <<birthdays, tracking, today, delivered_today, dailyRunVars>>
    /\ UNCHANGED <<dateVars, compVars, parseVars, listVars, configVars,
                   storageVars, remindVars>>

\* line 140: every stale file is removed, or an exception ends the cleanup
\* early and some are left
ConcurrentCleanup(p) ==
    /\ k_pc[p] = "cleanup"
    /\ \E removed \in SUBSET StaleFiles(tracking, today) :
          tracking' = cleanup_old_announcement_files(tracking, removed)
    /\ k_pc' = [k_pc EXCEPT ![p] = "read"]
    /\ UNCHANGED <<k_announced, k_idx, k_loaded, k_counted, adds, k_log>>
    /\ UNCHANGED <<birthdays, today, delivered_today, dailyRunVars>>
    /\ UNCHANGED <<dateVars, compVars, parseVars, listVars, configVars,
                   storageVars, remindVars>>

\* line 143
ConcurrentRead(p) ==
    /\ k_pc[p] = "read"
    /\ k_announced' =
          [k_announced EXCEPT ![p] = get_announced_birthdays_today(tracking, today, TRUE)]
    /\ k_pc' = [k_pc EXCEPT ![p] = "scan"]
    /\ k_log' = Append(k_log, Event(p, "read", None))
    /\ UNCHANGED <<k_idx, k_loaded, k_counted, adds>>
    /\ UNCHANGED <<birthdays, tracking, today, delivered_today, dailyRunVars>>
    /\ UNCHANGED <<dateVars, compVars, parseVars, listVars, configVars,
                   storageVars, remindVars>>

\* lines 148-154: the subject is skipped: it is in already_announced and is
\* counted, or it has no birthday
ConcurrentPass(p) ==
    /\ k_pc[p] = "scan"
    /\ k_idx[p] <= Len(k_loaded[p])
    /\ \/ k_loaded[p][k_idx[p]].user \in Range(k_announced[p])
       \/ ~check_if_birthday_today(k_loaded[p][k_idx[p]].date, DayDate(today))
    /\ k_counted' = IF k_loaded[p][k_idx[p]].user \in Range(k_announced[p])
                    THEN [k_counted EXCEPT ![p] = @ \cup {k_loaded[p][k_idx[p]].user}]
                    ELSE k_counted
    /\ k_idx' = [k_idx EXCEPT ![p] = @ + 1]
    /\ UNCHANGED <<k_pc, k_announced, k_loaded, adds, k_log>>
    /\ UNCHANGED <<birthdays, tracking, today, delivered_today, dailyRunVars>>
    /\ UNCHANGED <<dateVars, compVars, parseVars, listVars, configVars,
                   storageVars, remindVars>>

\* lines 154-170: the subject is counted and the announcement is posted
ConcurrentDeliver(p) ==
    /\ k_pc[p] = "scan"
    /\ k_idx[p] <= Len(k_loaded[p])
    /\ k_loaded[p][k_idx[p]].user \notin Range(k_announced[p])
    /\ check_if_birthday_today(k_loaded[p][k_idx[p]].date, DayDate(today))
    /\ ~date_to_words(k_loaded[p][k_idx[p]].date, k_loaded[p][k_idx[p]].year).raised
    /\ k_counted' = [k_counted EXCEPT ![p] = @ \cup {k_loaded[p][k_idx[p]].user}]
    /\ delivered_today' = [delivered_today EXCEPT ![k_loaded[p][k_idx[p]].user] =
            @ + PostsOk(send_birthday_announcement(FALSE, "ok", "ok").posts)]
    /\ k_pc' = [k_pc EXCEPT ![p] = "mark"]
    /\ k_log' = Append(k_log, Event(p, "deliver", k_loaded[p][k_idx[p]].user))
    /\ UNCHANGED <<k_announced, k_idx, k_loaded, adds>>
    /\ UNCHANGED <<birthdays, tracking, today, dailyRunVars>>
    /\ UNCHANGED <<dateVars, compVars, parseVars, listVars, configVars,
                   storageVars, remindVars>>

\* line 171
ConcurrentMark(p) ==
    /\ k_pc[p] = "mark"
    /\ tracking' = mark_birthday_announced(tracking, today, k_loaded[p][k_idx[p]].user, TRUE)
    /\ k_pc' = [k_pc EXCEPT ![p] = "scan"]
    /\ k_idx' = [k_idx EXCEPT ![p] = @ + 1]
    /\ k_log' = Append(k_log, Event(p, "mark", k_loaded[p][k_idx[p]].user))
    /\ UNCHANGED <<k_announced, k_loaded, k_counted, adds>>
    /\ UNCHANGED <<birthdays, today, delivered_today, dailyRunVars>>
    /\ UNCHANGED <<dateVars, compVars, parseVars, listVars, configVars,
                   storageVars, remindVars>>

\* lines 173-176
ConcurrentDone(p) ==
    /\ k_pc[p] = "scan"
    /\ k_idx[p] > Len(k_loaded[p])
    /\ k_pc' = [k_pc EXCEPT ![p] = "done"]
    /\ UNCHANGED <<k_announced, k_idx, k_loaded, k_counted, adds, k_log>>
    /\ UNCHANGED <<birthdays, tracking, today, delivered_today, dailyRunVars>>
    /\ UNCHANGED <<dateVars, compVars, parseVars, listVars, configVars,
                   storageVars, remindVars>>

InitConcurrent == InitDaily

NextConcurrent ==
    \E p \in Instances :
        \/ ConcurrentStart(p)
        \/ ConcurrentCleanup(p)
        \/ ConcurrentRead(p)
        \/ ConcurrentPass(p)
        \/ ConcurrentDeliver(p)
        \/ ConcurrentMark(p)
        \/ ConcurrentDone(p)

SpecConcurrent == InitConcurrent /\ [][NextConcurrent]_vars

(***************************************************************************)
(* handlers/commands/user_commands.py: handle_add_command, between runs of *)
(* daily() that follow one another, over the days of the clock.            *)
(***************************************************************************)
\* save_birthday: birthdays[user] = {date, year}; a dict keeps the place of a
\* key it already has
save_birthday(store, date, user, year) ==
    IF \E k \in 1..Len(store) : store[k].user = user
    THEN [k \in 1..Len(store) |->
             IF store[k].user = user THEN [user |-> user, date |-> date, year |-> year]
             ELSE store[k]]
    ELSE Append(store, [user |-> user, date |-> date, year |-> year])

\* bound on the number of add commands
MaxAddCommands == 2

\* the text after the word add
AddTexts ==
    { FormatDate(28, 2),
      FormatDate(29, 2) \o <<"/", "2", "0", "0", "0">>,
      FormatDate(1, 3) \o <<"/", "2", "0", "0", "0">>,
      <<"x">> }

NoRunUnderWay == \A q \in Instances : k_pc[q] \in {"idle", "done"}

\* lines 123-160: handle_add_command.  The record is saved; date_to_words
\* may raise after that; on the birthday itself the announcement is posted
\* at once (no marker is written).
AddCommand ==
    /\ adds < MaxAddCommands
    /\ NoRunUnderWay
    /\ adds' = adds + 1
    /\ \E user_id \in Users, date_text \in AddTexts :
          LET result == extract_date(date_text)
          IN  IF result.status # "success"
              THEN UNCHANGED <<birthdays, delivered_today, k_log>>
              ELSE /\ birthdays' = save_birthday(birthdays, result.date, user_id, result.year)
                   /\ IF /\ ~date_to_words(result.date, result.year).raised
                         /\ check_if_birthday_today(result.date, DayDate(today))
                      THEN /\ delivered_today' = [delivered_today EXCEPT ![user_id] =
                                 @ + PostsOk(send_birthday_announcement(FALSE, "ok", "ok").posts)]
                           /\ k_log' = Append(k_log, Event("command", "deliver", user_id))
                      ELSE UNCHANGED <<delivered_today, k_log>>
    /\ UNCHANGED <<k_pc, k_announced, k_idx, k_loaded, k_counted>>
    /\ UNCHANGED <<tracking, today, dailyRunVars>>
    /\ UNCHANGED <<dateVars, compVars, parseVars, listVars, configVars,
                   storageVars, remindVars>>

\* the clock passes midnight between two runs
CommandsMidnight ==
    /\ today < MaxDays
    /\ NoRunUnderWay
    /\ today' = today + 1
    /\ delivered_today' = [u \in Users |-> 0]
    /\ UNCHANGED concVars
    /\ UNCHANGED <<birthdays, tracking, dailyRunVars>>
    /\ UNCHANGED <<dateVars, compVars, parseVars, listVars, configVars,
                   storageVars, remindVars>>

\* a step of a run while no other run is under way
SequentialStep(p) ==
    /\ \A q \in Instances \ {p} : k_pc[q] \in {"idle", "done"}
    /\ \/ ConcurrentStart(p)
       \/ ConcurrentCleanup(p)
       \/ ConcurrentRead(p)
       \/ ConcurrentPass(p)
       \/ ConcurrentDeliver(p)
       \/ ConcurrentMark(p)
       \/ ConcurrentDone(p)

InitCommands == InitDaily

NextCommands ==
    \/ AddCommand
    \/ CommandsMidnight
    \/ \E p \in Instances : SequentialStep(p)

SpecCommands == InitCommands /\ [][NextCommands]_vars

(***************************************************************************)
(* utils/storage.py: the birthdays file and its backups.  A file is        *)
(* [exists, lines, mtime]; a line is the list of its comma-separated       *)
(* fields; a backup is [name, mtime, lines], name being the second of its  *)
(* timestamp.                                                              *)
(***************************************************************************)
\* settings.py line 15
MAX_BACKUPS == 10

\* bound on the number of storage operations
MaxStorageOps == 2

\* a line written without its year
FormatLine_without_year(rec) == <<rec.user, rec.date>>

\* f"{user},{data['date']}{year_part}\n": the year only when it is set
FormatLine(rec) ==
    IF rec.year # NoYear THEN <<rec.user, rec.date, rec.year>> ELSE <<rec.user, rec.date>>

\* the loop of load_birthdays: lines of fewer than two fields are skipped, a
\* later line of a user replaces the earlier one
RECURSIVE ParseLines(_)
ParseLines(lines) ==
    IF lines = <<>> THEN <<>>
    ELSE LET parts == lines[Len(lines)]
             earlier == ParseLines(SubSeq(lines, 1, Len(lines) - 1))
         IN  IF Len(parts) < 2 THEN earlier
             ELSE save_birthday(earlier, parts[2], parts[1],
                                IF Len(parts) > 2 THEN parts[3] ELSE NoYear)

\* the backups of the largest modification time
LatestBackups(backups) == {b \in backups : \A o \in backups : o.mtime <= b.mtime}

\* restore_latest_backup: shutil.copy2 of the newest backup by modification
\* time, contents and modification time
restore_latest_backup(file, backups) ==
    IF backups = {} THEN [ok |-> FALSE, file |-> file]
    ELSE LET latest == CHOOSE b \in LatestBackups(backups) : TRUE
         IN  [ok |-> TRUE,
              file |-> [exists |-> TRUE, lines |-> latest.lines, mtime |-> latest.mtime]]

\* load_birthdays: the records of the file; a missing file is restored from
\* the latest backup first
load_birthdays(file, backups) ==
    IF file.exists THEN [birthdays |-> ParseLines(file.lines), file |-> file]
    ELSE IF restore_latest_backup(file, backups).ok
    THEN [birthdays |-> ParseLines(restore_latest_backup(file, backups).file.lines),
          file |-> restore_latest_backup(file, backups).file]
    ELSE [birthdays |-> <<>>, file |-> file]

\* os.listdir gives the names in no promised order: by name, upwards or
\* downwards
ListdirOrders == {"up", "down"}

RECURSIVE listdir(_, _)
listdir(backups, order) ==
    IF backups = {} THEN <<>>
    ELSE LET first == CHOOSE b \in backups :
                         \A o \in backups : IF order = "up" THEN b.name <= o.name
                                            ELSE b.name >= o.name
         IN  <<first>> \o listdir(backups \ {first}, order)

\* backup_files.sort(key=os.path.getmtime): stable, oldest first
RECURSIVE SortByMtime(_)
SortByMtime(files) ==
    IF files = <<>> THEN <<>>
    ELSE LET sorted == SortByMtime(SubSeq(files, 1, Len(files) - 1))
             x == files[Len(files)]
             later == {i \in 1..Len(sorted) : x.mtime < sorted[i].mtime}
             at == IF later = {} THEN Len(sorted) + 1 ELSE Min(later)
         IN  SubSeq(sorted, 1, at - 1) \o <<x>> \o SubSeq(sorted, at, Len(sorted))

\* a rotation that sorts newest first
rotate_backups_newest_first(backups, order, remove_ok) ==
    LET backup_files == SortByMtime(listdir(backups, order))
        excess == IF Len(backup_files) > MAX_BACKUPS THEN Len(backup_files) - MAX_BACKUPS ELSE 0
        removed == IF remove_ok
                   THEN {backup_files[i] : i \in (Len(backup_files) - excess + 1)..Len(backup_files)}
                   ELSE {}
    IN  [backups |-> backups \ removed, removed |-> removed]

\* rotate_backups: while len(backup_files) > MAX_BACKUPS the first of the
\* sorted list is removed; an exception of os.remove ends the rotation
rotate_backups(backups, order, remove_ok) ==
    LET backup_files == SortByMtime(listdir(backups, order))
        excess == IF Len(backup_files) > MAX_BACKUPS THEN Len(backup_files) - MAX_BACKUPS ELSE 0
        removed == IF remove_ok THEN {backup_files[i] : i \in 1..excess} ELSE {}
    IN  [backups |-> backups \ removed, removed |-> removed]

\* how create_backup ends: done; shutil.copy2 raised; os.remove raised
BackupOutcomes == {"ok", "copy_fails", "remove_fails"}

\* create_backup: nothing without a birthdays file; else the copy named by
\* the second of the clock, with the modification time of the birthdays
\* file (copy2), then the rotation
create_backup(file, backups, clock, outcome, order) ==
    LET backup_file == [name |-> clock, mtime |-> file.mtime, lines |-> file.lines]
        copied == {b \in backups : b.name # clock} \cup {backup_file}
        rotated == rotate_backups(copied, order, outcome # "remove_fails")
    IN  IF ~file.exists \/ outcome = "copy_fails"
        THEN [backups |-> backups, created |-> {}, removed |-> {}]
        ELSE [backups |-> rotated.backups, created |-> {backup_file},
              removed |-> rotated.removed]

\* how the write of the birthdays file ends: done; open() raised; the file
\* was opened, which empties it, and the write raised
WriteOutcomes == {"ok", "open_fails", "write_fails"}

\* save_birthdays: the file written anew, then create_backup; an exception
\* is logged and no backup is made
save_birthdays(store, file, backups, clock, write_outcome, backup_outcome, order) ==
    LET written == [exists |-> TRUE,
                    lines |-> [k \in 1..Len(store) |-> FormatLine(store[k])],
                    mtime |-> clock]
        backup == create_backup(written, backups, clock, backup_outcome, order)
    IN  IF write_outcome = "ok"
        THEN [file |-> written, backups |-> backup.backups, created |-> backup.created,
              removed |-> backup.removed]
        ELSE [file |-> IF write_outcome = "open_fails" THEN file
                       ELSE [exists |-> TRUE, lines |-> <<>>, mtime |-> clock],
              backups |-> backups, created |-> {}, removed |-> {}]

\* remove_birthday on the loaded records: del birthdays[user]
remove_birthday(store, user) == SelectSeq(store, LAMBDA r : r.user # user)

HasRecord(store, user) == \E k \in 1..Len(store) : store[k].user = user

\* the stores of the birthdays file at the start
StorageStores ==
    { <<>>,
      << [user |-> "U1", date |-> FormatDate(28, 2), year |-> 2000] >>,
      << [user |-> "U2", date |-> FormatDate(1, 3), year |-> NoYear],
         [user |-> "U1", date |-> FormatDate(28, 2), year |-> NoYear] >> }

\* the state left by earlier operations: a store, n backups made in the
\* seconds 1..n, either each after a save of its own or all of one state of
\* the file, and the birthdays file possibly lost since
InitStorage ==
    /\ InitListIdle
    /\ InitConfigIdle
    /\ InitConcurrentIdle
    /\ InitDateIdle
    /\ InitCompletionIdle
    /\ InitParseIdle
    /\ InitDailyIdle
    /\ InitRemindIdle
    /\ \E st \in StorageStores, n \in {0, 1, MAX_BACKUPS - 1, MAX_BACKUPS},
          tied \in BOOLEAN, lost \in BOOLEAN :
          LET lines == [k \in 1..Len(st) |-> FormatLine(st[k])]
              newest == IF tied \/ n = 0 THEN 1 ELSE n
          IN  /\ BIRTHDAYS_FILE = IF lost THEN NoBirthdaysFile
                                  ELSE [exists |-> TRUE, lines |-> lines, mtime |-> newest]
              /\ backup_dir = { [name |-> i, mtime |-> IF tied THEN 1 ELSE i,
                                 lines |-> IF tied \/ i = n THEN lines ELSE <<>>] : i \in 1..n }
              /\ s_clock = n + 1
    /\ s_count = 0
    /\ s_last = NoOperation

\* save_birthday(date, user, year) of a command, with its load, its write
\* and its backup
StorageSave(users, write_outcomes, backup_outcomes, orders) ==
    /\ s_count < MaxStorageOps
    /\ \E user \in users, e \in StoreEntries, write_outcome \in write_outcomes,
          backup_outcome \in backup_outcomes, order \in orders :
          LET loaded_now == load_birthdays(BIRTHDAYS_FILE, backup_dir)
              saved == save_birthdays(save_birthday(loaded_now.birthdays, e.date, user, e.year),
                                      loaded_now.file, backup_dir, s_clock + 1,
                                      write_outcome, backup_outcome, order)
          IN  /\ BIRTHDAYS_FILE' = saved.file
              /\ backup_dir' = saved.backups
              /\ s_last' = [op |-> "save", user |-> user, date |-> e.date, year |-> e.year,
                            returned |-> IF HasRecord(loaded_now.birthdays, user)
                                         THEN "True" ELSE "False",
                            before |-> loaded_now.birthdays,
                            outcome |-> IF write_outcome # "ok" THEN write_outcome
                                        ELSE backup_outcome,
                            created |-> saved.created, removed |-> saved.removed]
    /\ s_clock' = s_clock + 1
    /\ s_count' = s_count + 1
    /\ UNCHANGED <<dateVars, compVars, dailyVars, parseVars, listVars, configVars, concVars,
                   remindVars>>

\* remove_birthday(user) of a command
StorageRemove(write_outcomes) ==
    /\ s_count < MaxStorageOps
    /\ \E user \in Users, write_outcome \in write_outcomes :
          LET loaded_now == load_birthdays(BIRTHDAYS_FILE, backup_dir)
              saved == save_birthdays(remove_birthday(loaded_now.birthdays, user),
                                      loaded_now.file, backup_dir, s_clock + 1,
                                      write_outcome, "ok", "up")
              found == HasRecord(loaded_now.birthdays, user)
          IN  /\ BIRTHDAYS_FILE' = IF found THEN saved.file ELSE loaded_now.file
              /\ backup_dir' = IF found THEN saved.backups ELSE backup_dir
              /\ s_last' = [op |-> "remove", user |-> user, date |-> NoDate, year |-> NoYear,
                            returned |-> IF found THEN "True" ELSE "False",
                            before |-> loaded_now.birthdays,
                            outcome |-> IF found THEN write_outcome ELSE "ok",
                            created |-> IF found THEN saved.created ELSE {},
                            removed |-> IF found THEN saved.removed ELSE {}]
    /\ s_clock' = s_clock + 1
    /\ s_count' = s_count + 1
    /\ UNCHANGED <<dateVars, compVars, dailyVars, parseVars, listVars, configVars, concVars,
                   remindVars>>

\* admin backup: create_backup(), in the second of the latest operation or
\* in a later one
StorageBackup ==
    /\ s_count < MaxStorageOps
    /\ \E tick \in {0, 1}, backup_outcome \in BackupOutcomes, order \in ListdirOrders :
          LET backup == create_backup(BIRTHDAYS_FILE, backup_dir, s_clock + tick,
                                      backup_outcome, order)
          IN  /\ backup_dir' = backup.backups
              /\ s_last' = [op |-> "backup", user |-> "None", date |-> NoDate, year |-> NoYear,
                            returned |-> "None", before |-> <<>>,
                            outcome |-> IF BIRTHDAYS_FILE.exists THEN backup_outcome
                                        ELSE "no_file",
                            created |-> backup.created, removed |-> backup.removed]
              /\ s_clock' = s_clock + tick
    /\ s_count' = s_count + 1
    /\ UNCHANGED BIRTHDAYS_FILE
    /\ UNCHANGED <<dateVars, compVars, dailyVars, parseVars, listVars, configVars, concVars,
                   remindVars>>

\* admin restore latest: restore_latest_backup()
StorageRestore ==
    /\ s_count < MaxStorageOps
    /\ BIRTHDAYS_FILE' = restore_latest_backup(BIRTHDAYS_FILE, backup_dir).file
    /\ s_last' = [op |-> "restore", user |-> "None", date |-> NoDate, year |-> NoYear,
                  returned |-> IF restore_latest_backup(BIRTHDAYS_FILE, backup_dir).ok
                               THEN "True" ELSE "False",
                  before |-> <<>>, outcome |-> "ok", created |-> {}, removed |-> {}]
    /\ s_clock' = s_clock + 1
    /\ s_count' = s_count + 1
    /\ UNCHANGED backup_dir
    /\ UNCHANGED <<dateVars, compVars, dailyVars, parseVars, listVars, configVars, concVars,
                   remindVars>>

\* saves of one user, manual backups and restores, with every end of
\* create_backup
BackupSave == StorageSave({"U1"}, {"ok"}, BackupOutcomes, ListdirOrders)

NextBackup ==
    \/ BackupSave
    \/ StorageBackup
    \/ StorageRestore

SpecBackup == InitStorage /\ [][NextBackup]_vars

\* saves and removals of every user, with every end of the write
StoreSave == StorageSave(Users, WriteOutcomes, {"ok"}, {"up"})

StoreRemove == StorageRemove(WriteOutcomes)

NextStore ==
    \/ StoreSave
    \/ StoreRemove

SpecStore == InitStorage /\ [][NextStore]_vars

\* the record load_birthdays gives for a user, None when it gives none
RecordOf(store, user) ==
    IF HasRecord(store, user)
    THEN LET k == CHOOSE i \in 1..Len(store) : store[i].user = user
         IN  <<store[k].date, store[k].year>>
    ELSE <<"None">>

LoadedNow == load_birthdays(BIRTHDAYS_FILE, backup_dir).birthdays

\* a create_backup that made its copy and ended without an exception
BackupCompleted ==
    /\ s_last.op \in {"save", "backup"}
    /\ s_last.outcome = "ok"
    /\ s_last.created # {}

C36_WitnessTied ==
    /\ BackupCompleted
    /\ s_last.removed = s_last.created

\* the effects of the latest save_birthday or remove_birthday on what
\* load_birthdays gives
StoreEffects ==
    /\ \A u \in Users \ {s_last.user} : RecordOf(LoadedNow, u) = RecordOf(s_last.before, u)
    /\ s_last.op = "save" => RecordOf(LoadedNow, s_last.user) = <<s_last.date, s_last.year>>
    /\ s_last.op = "remove" => ~HasRecord(LoadedNow, s_last.user)
    /\ s_last.returned = "True" <=> HasRecord(s_last.before, s_last.user)

\* C37: save_birthday(date, user, year) leaves every other record as it
\* was, makes load_birthdays map user to exactly (date, year) and returns
\* True exactly when user had a record; remove_birthday(user) removes only
\* the record of user and returns True exactly when it existed.
C37_SaveAndRemoveEffects ==
    s_last.op \in {"save", "remove"} => StoreEffects

\* the same for the calls whose write of the birthdays file succeeded
C37_EffectsWhenWritten ==
    (s_last.op \in {"save", "remove"} /\ s_last.outcome = "ok") => StoreEffects

\* a save that replaced the record of a user while another user has one,
\* and a removal of an existing record
C37_WitnessWritten ==
    /\ s_last.op = "save"
    /\ s_last.outcome = "ok"
    /\ s_last.returned = "True"
    /\ s_last.year # NoYear
    /\ \E u \in Users \ {s_last.user} : HasRecord(LoadedNow, u)

(***************************************************************************)
(* services/birthday.py: send_reminder_to_users, one action per user of    *)
(* the list.                                                               *)
(***************************************************************************)
\* bound on the length of the list of users
MaxRemindUsers == 2

\* users_info in the bot check: a bot, a person, or an exception
BotChecks == {"bot", "human", "raises"}

\* the text of a reminder: one of the greetings with the mention when no
\* custom message is given; else the custom message, the mention put in
\* front when it is not in it
reminder_message(user_id, custom_message) ==
    IF custom_message = NoMessage
    THEN <<"x">> \o get_user_mention(user_id) \o <<"x">>
    ELSE IF ~Contains(custom_message, get_user_mention(user_id))
    THEN get_user_mention(user_id) \o <<",", " ">> \o custom_message
    ELSE custom_message

\* one pass of the loop for user_id.  name_outcome is the profile request of
\* get_username, post_outcome the chat_postMessage of send_message,
\* log_outcome the profile request of the get_username inside send_message,
\* made when the first one cached no name.  get_username and send_message
\* catch SlackApiError only; every exception of the bot check is caught.
remind_user(user_id, custom_message, res, bot_check, name_outcome, post_outcome, log_outcome) ==
    LET text == reminder_message(user_id, custom_message)
        posted == << [user |-> user_id, text |-> text] >>
    IN  IF bot_check = "bot"
        THEN [raised |-> FALSE, sent |-> <<>>,
              results |-> [res EXCEPT !.skipped_bots = @ + 1]]
        ELSE IF get_username(user_id, name_outcome).raised
        THEN [raised |-> TRUE, sent |-> <<>>, results |-> res]
        ELSE IF send_message(post_outcome) = "raise"
        THEN [raised |-> TRUE, sent |-> <<>>, results |-> res]
        ELSE IF send_message(post_outcome) = "False"
        THEN [raised |-> FALSE, sent |-> <<>>, results |-> [res EXCEPT !.failed = @ + 1]]
        ELSE IF name_outcome # "ok" /\ get_username(user_id, log_outcome).raised
        THEN [raised |-> TRUE, sent |-> posted, results |-> res]
        ELSE [raised |-> FALSE, sent |-> posted,
              results |-> [res EXCEPT !.successful = @ + 1,
                                      !.users = Append(@, user_id)]]

\* custom messages of the remind command: none, one without a mention, one
\* that holds the mention of U1
CustomMessages ==
    {NoMessage, <<"x">>, <<"x", " ">> \o get_user_mention("U1")}

RemindUserLists ==
    UNION {[1..n -> Users] : n \in 1..MaxRemindUsers}

InitRemind ==
    /\ InitListIdle
    /\ InitConfigIdle
    /\ InitConcurrentIdle
    /\ InitDateIdle
    /\ InitCompletionIdle
    /\ InitParseIdle
    /\ InitDailyIdle
    /\ InitStorageIdle
    /\ r_pc = "loop"
    /\ r_users \in RemindUserLists
    /\ r_custom \in CustomMessages
    /\ r_idx = 1
    /\ results = NoResults
    /\ r_sent = <<>>

\* for user_id in users: one user
RemindUser ==
    /\ r_pc = "loop"
    /\ r_idx <= Len(r_users)
    /\ \E bot_check \in BotChecks, name_outcome \in ClientOutcomes,
          post_outcome \in ClientOutcomes, log_outcome \in ClientOutcomes :
          LET step == remind_user(r_users[r_idx], r_custom, results, bot_check,
                                  name_outcome, post_outcome, log_outcome)
          IN  /\ results' = step.results
              /\ r_sent' = r_sent \o step.sent
              /\ r_pc' = IF step.raised THEN "raised" ELSE "loop"
              /\ r_idx' = IF step.raised THEN r_idx ELSE r_idx + 1
    /\ UNCHANGED <<r_users, r_custom>>
    /\ UNCHANGED <<dateVars, compVars, dailyVars, parseVars, listVars, configVars, concVars,
                   storageVars>>

\* return results
RemindReturn ==
    /\ r_pc = "loop"
    /\ r_idx > Len(r_users)
    /\ r_pc' = "returned"
    /\ UNCHANGED <<r_users, r_custom, r_idx, results, r_sent>>
    /\ UNCHANGED <<dateVars, compVars, dailyVars, parseVars, listVars, configVars, concVars,
                   storageVars>>

NextRemind ==
    \/ RemindUser
    \/ RemindReturn

SpecRemind == InitRemind /\ [][NextRemind]_vars

\* what the claim says of a call that has returned
RemindResultsComplete ==
    /\ results.successful + results.failed + results.skipped_bots = Len(r_users)
    /\ results.users = [k \in 1..Len(r_sent) |-> r_sent[k].user]
    /\ results.successful = Len(results.users)
    /\ r_custom # NoMessage =>
          \A k \in 1..Len(r_sent) : Contains(r_sent[k].text, get_user_mention(r_sent[k].user))

\* C38: send_reminder_to_users processes every user of the list: a call
\* that has ended has returned, a failed send did not stop it; the three
\* counts add up to the number of users, results.users lists exactly the
\* users whose send succeeded, and every message of the custom-message path
\* holds the mention of its recipient.
C38_EveryUserProcessed ==
    r_pc # "loop" => (r_pc = "returned" /\ RemindResultsComplete)

\* what holds of every call that has returned
C38_CompleteOnReturn ==
    r_pc = "returned" => RemindResultsComplete

\* a call that returned after a failed send followed by a successful one,
\* on the custom-message path
C38_WitnessReturned ==
    /\ r_pc = "returned"
    /\ r_custom # NoMessage
    /\ results.failed >= 1
    /\ results.successful >= 1
    /\ results.users = <<r_users[Len(r_users)]>>

(***************************************************************************)
(* Properties of the date arithmetic (SpecDate).                           *)
(***************************************************************************)
Feb29 == FormatDate(29, 2)

\* the first leap year after year y
NextLeapYear(y) == CHOOSE L \in (y + 1)..(y + 8) :
                      IsLeap(L) /\ \A k \in (y + 1)..(L - 1) : ~IsLeap(k)

\* this years 29 February does not exist or lies before the reference date
Feb29Missed(ref) ==
    \/ ~IsLeap(ref.year)
    \/ ref.month > 2

\* C6 (as stated): for every valid day/month, 29/02 included, and every
\* reference date, calculate_days_until_birthday returns a value in [0, 366]
\* and returns 0 exactly when check_if_birthday_today is true.
C6_DaysUntilWithin366 ==
    date_pc = "computed" =>
        /\ ~days_until.raised
        /\ days_until.days \in 0..366
        /\ (days_until.days = 0) <=> is_today

\* C6 (amended): the value is in [0, 366] for every valid day/month other
\* than 29/02; for 29/02 it is the distance to the next existing 29 February,
\* between 0 and 2921 days; in every case it is 0 exactly when
\* check_if_birthday_today is true.
C6_DaysUntilRange ==
    date_pc = "computed" =>
        /\ ~days_until.raised
        /\ days_until.days >= 0
        /\ date_str # Feb29 => days_until.days <= 366
        /\ date_str = Feb29 => days_until.days <= 2921
        /\ (days_until.days = 0) <=> is_today

C6_Witness ==
    /\ date_pc = "computed"
    /\ date_str = Feb29
    /\ days_until.days > 366

\* C7: for 29/02 and a reference date on which this years 29 February does
\* not exist or has passed, calculate_days_until_birthday raises nothing and
\* returns the whole-day difference to 29 February of the next leap year.
C7_Feb29NextLeapYear ==
    (date_pc = "computed" /\ date_str = Feb29 /\ Feb29Missed(reference_date)) =>
        /\ ~days_until.raised
        /\ days_until.days =
              Ordinal(Date(NextLeapYear(reference_date.year), 2, 29)) - Ordinal(reference_date)

\* 29 February of this leap year has passed: next years date does not exist
C7_Witness ==
    /\ date_pc = "computed"
    /\ date_str = Feb29
    /\ IsLeap(reference_date.year)
    /\ reference_date.month > 2
    /\ days_until.days > 366

\* C8: check_if_birthday_today is true exactly when the record day and
\* month are the references day and month; the year of the reference never
\* changes the result.
C8_BirthdayTodayIffDayMonth ==
    date_pc = "computed" =>
        /\ is_today <=> (date_str = FormatDate(reference_date.day, reference_date.month))
        /\ \A y \in RefYearFirst..RefYearLast :
              check_if_birthday_today(date_str, [reference_date EXCEPT !.year = y]) = is_today

\* same day of the month in another month: the result must be false
C8_Witness ==
    /\ date_pc = "computed"
    /\ ~is_today
    /\ SplitDate(date_str).day = reference_date.day

\* C24 (as stated): the roll-forward loop examines at most 4 candidate years.
C24_RollForwardWithin4 ==
    (date_pc = "computed") => (days_until.examined <= 4)

\* C24 (amended): the roll-forward loop ends, having examined at most 8
\* candidate years: the years after the reference year up to the first one
\* that has the date.
C24_RollForwardWithin8 ==
    (date_pc = "computed" /\ days_until.examined > 0) =>
        /\ ~days_until.raised
        /\ days_until.examined <= 8
        /\ \E y \in (reference_date.year + 1)..(reference_date.year + 8) :
              /\ ValidDate(y, SplitDate(date_str).month, SplitDate(date_str).day)
              /\ Ordinal(Date(y, SplitDate(date_str).month, SplitDate(date_str).day))
                    - Ordinal(reference_date) = days_until.days
              /\ days_until.examined = y - reference_date.year

\* the loop went over the century year 2100 that is not a leap year
C24_Witness ==
    /\ date_pc = "computed"
    /\ date_str = FormatDate(29, 2)
    /\ days_until.examined = 8

(***************************************************************************)
(* Properties of the command permissions (SpecConfig).                     *)
(***************************************************************************)
\* C22: whatever config commands were handled, the permission check of the
\* remind command gives what is_admin gives for every user, and a config
\* command that names remind leaves COMMAND_PERMISSIONS as it was.
C22_RemindStaysAdminOnly ==
    /\ \A u \in Users, lookup \in AdminLookups :
          check_command_permission(u, "remind", COMMAND_PERMISSIONS, ADMIN_USERS, lookup)
              = is_admin(u, ADMIN_USERS, lookup)
    /\ (Len(cfg_request.parts) >= 2 /\ cfg_request.parts[2] = "remind")
          => COMMAND_PERMISSIONS = cfg_before

\* an admin has opened list and stats to all users and then asked to open
\* remind as well
C22_Witness ==
    /\ cfg_request.parts = <<"config", "remind", "false">>
    /\ is_admin(cfg_request.user, ADMIN_USERS, cfg_request.lookup) = "True"
    /\ COMMAND_PERMISSIONS = [c \in {"list", "stats"} |-> FALSE]
    /\ \E u \in Users : is_admin(u, ADMIN_USERS, "member") = "False"

(***************************************************************************)
(* Properties of the admin commands (SpecAdmin).                           *)
(***************************************************************************)
\* the sender of the command of a step is not in ADMIN_USERS and users_info
\* does not report a workspace admin
NotAdminAtStep ==
    /\ cfg_count' = cfg_count + 1
    /\ cfg_request'.user \notin Range(ADMIN_USERS)
    /\ cfg_request'.lookup # "admin"

\* C33: a command (admin subcommand, help included, or config command) sent
\* by a user who is neither in ADMIN_USERS nor a workspace admin leaves
\* ADMIN_USERS, the admins file, COMMAND_PERMISSIONS and the current
\* personality as they were, at every step of every sequence of commands.
C33_NonAdminChangesNothing ==
    [][NotAdminAtStep =>
          UNCHANGED <<ADMIN_USERS, admins_file, COMMAND_PERMISSIONS, current_personality>>]_vars

\* a user outside the admin list, not a workspace admin, asked to be added
\* as admin while the list held another user, and was turned away
C33_Witness ==
    /\ cfg_request.parts = <<"admin", "add", "u1">>
    /\ cfg_request.user = "U1"
    /\ cfg_request.lookup = "member"
    /\ ADMIN_USERS = <<"U2">>
    /\ cfg_said = "You don't have permission to use admin commands"

\* no user id twice
NoDuplicates(list) == \A i, j \in 1..Len(list) : list[i] = list[j] => i = j

\* C34: after any sequence of admin add and admin remove commands, failed
\* saves included, ADMIN_USERS equals the list stored in the admins file and
\* holds no user id twice.
C34_AdminListEqualsFile ==
    /\ ADMIN_USERS = load_admins_from_file(admins_file, TRUE)
    /\ NoDuplicates(ADMIN_USERS)

\* what holds: the list in memory is the list of the file whenever the file
\* is whole, and it never holds a user id twice
C34_EqualWhileFileWhole ==
    /\ admins_file.state = "ok" => ADMIN_USERS = admins_file.admins
    /\ NoDuplicates(ADMIN_USERS)

(***************************************************************************)
(* Properties of the list command (SpecList).                              *)
(***************************************************************************)
\* the year of the occurrence that calculate_days_until_birthday counts to
NextOccurrenceYear(record_date, ref) ==
    CHOOSE y \in ref.year..(ref.year + 9) :
        /\ ValidDate(y, SplitDate(record_date).month, SplitDate(record_date).day)
        /\ Ordinal(Date(y, SplitDate(record_date).month, SplitDate(record_date).day)) - Ordinal(ref)
              = calculate_days_until_birthday(record_date, ref).days

\* C15: where the list shows "turning N" for a record, N is the year of the
\* next occurrence, as calculate_days_until_birthday rolls
\* forward to it, minus the birth year; on the birthday itself N is the
\* reference year minus the birth year.
C15_ListAgeIsAgeOnNextOccurrence ==
    (l_pc = "listed" /\ age_text.kind = "turning") =>
        /\ age_text.value = NextOccurrenceYear(bdate, l_reference_date) - birth_year
        /\ (l_days_until.days = 0) => (age_text.value = l_reference_date.year - birth_year)

\* the days until the birthday of an entry, against the reference date
DaysOf(e) == calculate_days_until_birthday(e.bdate, l_reference_date).days

\* the list holds every record of the file once
HoldsEveryRecord ==
    /\ Len(birthday_list) = Len(l_birthdays)
    /\ \A r \in 1..Len(l_birthdays) :
          \E i \in 1..Len(birthday_list) :
             birthday_list[i].uid = l_birthdays[r].uid
             /\ birthday_list[i].bdate = l_birthdays[r].date

\* C35: the regular list holds every record ordered by non-decreasing
\* calculate_days_until_birthday against the one reference date of the
\* command, entries of 0 days before all others, and its reply shows at most
\* 10 entries, the first of that order; list all holds and shows every
\* record ordered by (month, day), the same order for every reference date.
C35_TwoSortStrategies ==
    /\ (l_pc \in {"sorted", "said"} /\ ~l_all) =>
          /\ HoldsEveryRecord
          /\ \A i, j \in 1..Len(birthday_list) :
                i < j => /\ DaysOf(birthday_list[i]) <= DaysOf(birthday_list[j])
                         /\ DaysOf(birthday_list[j]) = 0 => DaysOf(birthday_list[i]) = 0
    /\ (l_pc = "said" /\ ~l_all) =>
          /\ Len(l_shown.entries) <= 10
          /\ \A i \in 1..Len(l_shown.entries) : l_shown.entries[i] = birthday_list[i]
          /\ ~l_shown.raised =>
                Len(l_shown.entries) = (IF Len(birthday_list) < 10 THEN Len(birthday_list) ELSE 10)
    /\ (l_pc \in {"sorted", "said"} /\ l_all) =>
          /\ HoldsEveryRecord
          /\ \A i, j \in 1..Len(birthday_list) :
                i < j => ~MonthDayBefore(birthday_list[j], birthday_list[i])
          /\ \A ref \in ListOrderDates :
                sort_birthday_list(build_birthday_list(l_birthdays, ref, TRUE), TRUE)
                   = birthday_list
    /\ (l_pc = "said" /\ l_all) => l_shown = [raised |-> FALSE, entries |-> birthday_list]

\* a regular list of more than 10 records, two of them with their birthday
\* on the reference date, shown as 10 entries in an order that is not the
\* order by month and day
C35_Witness ==
    /\ l_pc = "said"
    /\ ~l_all
    /\ Len(birthday_list) > 10
    /\ ~l_shown.raised
    /\ Len(l_shown.entries) = 10
    /\ DaysOf(birthday_list[2]) = 0
    /\ \E i, j \in 1..10 : i < j /\ MonthDayBefore(birthday_list[j], birthday_list[i])

\* list all of more than 10 records, shown whole, in an order that is not
\* the order by days until the birthday
C35_WitnessAll ==
    /\ l_pc = "said"
    /\ l_all
    /\ Len(l_shown.entries) > 10
    /\ \E i, j \in 1..Len(birthday_list) :
          i < j /\ DaysOf(birthday_list[j]) < DaysOf(birthday_list[i])

(***************************************************************************)
(* Properties of extract_date and get_star_sign (SpecParse).               *)
(***************************************************************************)
\* the message is just DD/MM or just DD/MM/YYYY
IsBareDate(msg) == Len(msg) = 5 /\ BarePatternAt(msg, 1)

IsYearDate(msg) == Len(msg) = 10 /\ YearPatternAt(msg, 1)

\* C13: for a message DD/MM, extract_date answers success when the day and
\* month are a date of at least one year (29/02 included) and invalid_date
\* otherwise; for a message DD/MM/YYYY with a year from 1 on, it answers
\* success when the date exists in that year and invalid_date otherwise.
C13_ExtractAcceptsRealDates ==
    (p_pc \in {"extracted", "signed"}) =>
        /\ IsBareDate(message) =>
              extracted.status =
                 (IF ValidDate(2000, SplitDate(message).month, SplitDate(message).day)
                  THEN "success" ELSE "invalid_date")
        /\ (IsYearDate(message) /\ NumVal(SubSeq(message, 7, 10)) >= 1) =>
              extracted.status =
                 (IF ValidDate(NumVal(SubSeq(message, 7, 10)),
                               SplitDate(message).month, SplitDate(message).day)
                  THEN "success" ELSE "invalid_date")

\* positions of the text where each pattern matches
YearPositions(msg) == {i \in 1..Len(msg) : YearPatternAt(msg, i)}

BarePositions(msg) == {i \in 1..Len(msg) : BarePatternAt(msg, i)}

\* C32: when the text holds a match of DD/MM/YYYY and a match of bare DD/MM,
\* wherever they stand, the result is that of the year-qualified pattern: its
\* day/month and its year when the date exists in that year, invalid_date
\* with no date otherwise; the date of the bare pattern is never the result.
C32_YearPatternDecides ==
    (p_pc \in {"extracted", "signed"}
     /\ YearPositions(message) # {} /\ BarePositions(message) # {}) =>
        LET at == Min(YearPositions(message))
            dd == NumVal(SubSeq(message, at, at + 1))
            mm == NumVal(SubSeq(message, at + 3, at + 4))
            yyyy == NumVal(SubSeq(message, at + 6, at + 9))
        IN  IF yyyy >= 1 /\ ValidDate(yyyy, mm, dd)
            THEN extracted = [status |-> "success",
                              date |-> SubSeq(message, at, at + 4), year |-> yyyy]
            ELSE extracted = [status |-> "invalid_date", date |-> NoDate, year |-> NoYear]

\* a real bare date stands before a year-qualified date of another day, and
\* the result is the year-qualified one
C32_Witness ==
    /\ p_pc = "extracted"
    /\ YearPositions(message) # {} /\ BarePositions(message) # {}
    /\ Min(BarePositions(message)) < Min(YearPositions(message))
    /\ ~StrptimeRaises(SubSeq(message, Min(BarePositions(message)),
                                Min(BarePositions(message)) + 4))
    /\ extracted.status = "success"
    /\ extracted.year = 2000
    /\ extracted.date # SubSeq(message, Min(BarePositions(message)),
                                Min(BarePositions(message)) + 4)

\* the same with a year-qualified date that does not exist: invalid_date,
\* although the bare date before it is a real one
C32_WitnessInvalid ==
    /\ p_pc = "extracted"
    /\ YearPositions(message) # {} /\ BarePositions(message) # {}
    /\ Min(BarePositions(message)) < Min(YearPositions(message))
    /\ ~StrptimeRaises(SubSeq(message, Min(BarePositions(message)),
                                Min(BarePositions(message)) + 4))
    /\ extracted.status = "invalid_date"

\* the twelve labels with the first and the last day of each
SignTable ==
    << [label |-> "Aquarius", from |-> <<20, 1>>, to |-> <<18, 2>>],
       [label |-> "Pisces", from |-> <<19, 2>>, to |-> <<20, 3>>],
       [label |-> "Aries", from |-> <<21, 3>>, to |-> <<19, 4>>],
       [label |-> "Taurus", from |-> <<20, 4>>, to |-> <<20, 5>>],
       [label |-> "Gemini", from |-> <<21, 5>>, to |-> <<20, 6>>],
       [label |-> "Cancer", from |-> <<21, 6>>, to |-> <<22, 7>>],
       [label |-> "Leo", from |-> <<23, 7>>, to |-> <<22, 8>>],
       [label |-> "Virgo", from |-> <<23, 8>>, to |-> <<22, 9>>],
       [label |-> "Libra", from |-> <<23, 9>>, to |-> <<22, 10>>],
       [label |-> "Scorpio", from |-> <<23, 10>>, to |-> <<21, 11>>],
       [label |-> "Sagittarius", from |-> <<22, 11>>, to |-> <<21, 12>>],
       [label |-> "Capricorn", from |-> <<22, 12>>, to |-> <<19, 1>>] >>

InSignRange(r, day, month) ==
    \/ month = r.from[2] /\ day >= r.from[1]
    \/ month = r.to[2] /\ day <= r.to[1]

\* C17: for every accepted date, exactly one of the twelve inclusive ranges
\* holds the date and get_star_sign returns the label of that range (one of
\* the twelve labels, never None); the first and the last day of each range
\* get the label of the range, so each label is returned for some date.
C17_StarSignTotalOnto ==
    /\ (p_pc = "signed") =>
          LET day == SplitDate(extracted.date).day
              month == SplitDate(extracted.date).month
              hits == {k \in 1..Len(SignTable) : InSignRange(SignTable[k], day, month)}
          IN  /\ Cardinality(hits) = 1
              /\ \A k \in hits : star_sign = SignTable[k].label
    /\ Len(SignTable) = 12
    /\ \A k \in 1..Len(SignTable) :
          /\ get_star_sign(FormatDate(SignTable[k].from[1], SignTable[k].from[2]))
                = SignTable[k].label
          /\ get_star_sign(FormatDate(SignTable[k].to[1], SignTable[k].to[2]))
                = SignTable[k].label
          /\ \A j \in 1..Len(SignTable) : j # k => SignTable[j].label # SignTable[k].label

\* the first day of Pisces, the day after the last day of Aquarius
C17_Witness ==
    /\ p_pc = "signed"
    /\ extracted.date = FormatDate(19, 2)
    /\ star_sign = "Pisces"

(***************************************************************************)
(* Properties of completion() (SpecCompletion).                            *)
(***************************************************************************)
HasBothTokens(text, user_id) ==
    /\ Contains(text, get_user_mention(user_id))
    /\ Contains(text, ChannelToken)

\* C2 (as stated): every string completion() returns for a user_id holds the
\* mention token and the broadcast token, on every path, the return after
\* exhausted retries included.
C2_EveryReturnHasTokens ==
    (c_pc = "returned" /\ c_args.user_id # None) => HasBothTokens(c_result, c_args.user_id)

\* C2 (amended): the returned string holds both tokens when it was generated
\* on the first attempt, generated after a repair retry, or taken from the
\* fallback pool; the string returned after the retries are exhausted is the
\* last response, which failed validation and lacks at least one token.
C2_ReturnHasTokensUnlessExhausted ==
    (c_pc = "returned" /\ c_args.user_id # None) =>
        IF c_exit = "exhausted"
        THEN ~HasBothTokens(c_result, c_args.user_id)
        ELSE HasBothTokens(c_result, c_args.user_id)

\* a text accepted after a repair retry
C2_Witness ==
    /\ c_pc = "returned"
    /\ c_exit = "validated"
    /\ retry_count > 0
    /\ c_args.user_id = "U1"

\* C10: once a backend call has raised, on the first attempt or on a retry,
\* completion() has made no further backend call and has returned a
\* non-empty text that is one template of BACKUP_MESSAGES with the mention
\* token in the place of the name placeholder.
C10_BackendRaiseGivesFallback ==
    c_raise_call # 0 =>
        /\ c_pc = "returned"
        /\ c_exit = "fallback"
        /\ c_calls = c_raise_call
        /\ c_result # <<>>
        /\ ~Contains(c_result, <<"{name}">>)
        /\ \E k \in 1..Len(BACKUP_MESSAGES) :
              \E i \in 1..Len(BACKUP_MESSAGES[k]) :
                 /\ BACKUP_MESSAGES[k][i] = "{name}"
                 /\ c_result = SubSeq(BACKUP_MESSAGES[k], 1, i - 1)
                                 \o UserMention(c_args.name, c_args.user_id)
                                 \o SubSeq(BACKUP_MESSAGES[k], i + 1, Len(BACKUP_MESSAGES[k]))
        /\ c_args.user_id # None => Contains(c_result, <<"<", "@", c_args.user_id, ">">>)

\* the backend raised on a repair retry
C10_Witness ==
    /\ c_raise_call >= 2
    /\ c_pc = "returned"
    /\ c_args.user_id = "U1"

\* C11: completion() calls the backend at most max_retries + 1 times, and
\* as soon as a response holds both the mention token and the broadcast
\* token (the responses before it having failed validation), completion()
\* has returned the normalized text of that response.
C11_RetryThenSuccess ==
    /\ c_calls <= c_args.max_retries + 1
    /\ ( /\ c_args.user_id # None
         /\ c_last_reply # <<>>
         /\ c_raise_call = 0
         /\ HasBothTokens(c_last_reply, c_args.user_id) )
       => ( /\ c_pc = "returned"
            /\ c_result = fix_slack_formatting(c_last_reply) )

\* C12: when max_retries + 1 responses have come in, no call has raised and
\* the normalized last response fails validation, completion() has returned
\* that normalized last response by the return statement for exhausted
\* retries.
C12_ExhaustedReturnsLast ==
    ( /\ c_calls >= 1
      /\ c_calls = c_args.max_retries + 1
      /\ c_raise_call = 0
      /\ validation_errors(fix_slack_formatting(c_last_reply), c_args.user_id) # <<>> )
    => ( /\ c_pc = "returned"
         /\ c_exit = "exhausted"
         /\ c_result = fix_slack_formatting(c_last_reply) )

\* three responses that all failed validation with max_retries = 2
C12_Witness ==
    /\ c_exit = "exhausted"
    /\ c_args.max_retries = 2
    /\ c_calls = 3
    /\ c_result # <<>>

\* C20: whenever the raw response of the backend holds the mention of the
\* subject and the channel token, the text that fix_slack_formatting makes of
\* it, which completion() returns, still holds both.
C20_TokensSurviveFormatting ==
    ( /\ c_pc = "returned"
      /\ c_exit \in {"validated", "exhausted"}
      /\ c_raise_call = 0
      /\ c_args.user_id # None
      /\ HasBothTokens(c_last_reply, c_args.user_id) )
    => ( /\ c_result = fix_slack_formatting(c_last_reply)
         /\ HasBothTokens(c_result, c_args.user_id) )

\* the text holds the symbol
HasSymbol(text, sym) == \E k \in 1..Len(text) : text[k] = sym

\* C21: without a birth year no message of the prompt states an age, and the
\* template announcement that completion() returns after the loop holds
\* neither the age text nor an age fact.
C21_NoAgeWithoutBirthYear ==
    (c_args.birth_year = NoYear) =>
        /\ \A k \in 1..Len(template) : ~HasSymbol(template[k].content, "Theyre turning")
        /\ (c_exit = "unexpected") =>
              (~HasSymbol(c_result, "years young") /\ ~HasSymbol(c_result, "age fact"))

\* the template announcement was built for a subject without a birth year
C21_Witness ==
    /\ c_exit = "unexpected"
    /\ c_args.birth_year = NoYear
    /\ Len(template) = 2
    /\ HasSymbol(c_result, "Birthday Extraordinaire")

\* the k-th retry left its two messages in the prompt: the failed attempt and
\* a corrective message that names what the attempt lacked
RetryPair(k) ==
    LET attempt == template[2 * k + 1]
        corrective == template[2 * k + 2]
    IN  /\ attempt.role = "assistant"
        /\ corrective.role = "user"
        /\ validation_errors(attempt.content, c_args.user_id) # <<>>
        /\ corrective.content
              = Clarification(validation_errors(attempt.content, c_args.user_id),
                              c_args.name, c_args.user_id)
        /\ HasSymbol(corrective.content, "Missing user mention")
              <=> (c_args.user_id # None
                   /\ ~Contains(attempt.content, get_user_mention(c_args.user_id)))
        /\ HasSymbol(corrective.content, "Missing channel mention")
              <=> ~Contains(attempt.content, ChannelToken)

\* C29: the prompt starts with two messages and every retry appends two, the
\* failed attempt and a corrective message naming exactly the missing
\* tokens, so the call number k gets 2 + 2(k-1) messages; a pass of the loop
\* leaves the messages already in the prompt as they are.
C29_RetryAppendsTwoMessages ==
    /\ []( (c_pc \in {"loop", "returned"}) =>
              /\ Len(template) = 2 + 2 * retry_count
              /\ (c_pc = "loop") => (c_calls = retry_count)
              /\ SubSeq(template, 1, 2)
                    = InitialTemplate(c_args.name, c_args.date, c_args.user_id,
                                      c_args.birth_date, c_args.birth_year, c_args.now_year)
              /\ \A k \in 1..retry_count : RetryPair(k) )
    /\ [][ (c_pc = "loop") =>
              /\ Len(template') \in {Len(template), Len(template) + 2}
              /\ SubSeq(template', 1, Len(template)) = template ]_vars

\* two retries, the first for a missing mention only, the second for a
\* missing channel token only
C29_Witness ==
    /\ c_pc = "loop"
    /\ retry_count = 2
    /\ Len(template) = 6
    /\ HasSymbol(template[4].content, "Missing user mention")
    /\ ~HasSymbol(template[4].content, "Missing channel mention")
    /\ HasSymbol(template[6].content, "Missing channel mention")
    /\ ~HasSymbol(template[6].content, "Missing user mention")

\* C39: for every max_retries >= 0 each pass of the retry loop of
\* completion() either returns or increases retry_count by one, and the loop
\* condition retry_count <= max_retries never turns false, so the code after
\* the loop, which calls create_birthday_announcement, is never reached.
C39_AfterLoopUnreachable ==
    /\ []( (c_pc # "idle" /\ c_args.max_retries >= 0) =>
              /\ c_exit # "unexpected"
              /\ (c_pc = "loop") => (retry_count <= c_args.max_retries) )
    /\ [][ (c_pc = "loop" /\ c_args.max_retries >= 0) =>
              \/ c_pc' = "returned" /\ c_exit' \in {"validated", "exhausted", "fallback"}
              \/ c_pc' = "loop" /\ retry_count' = retry_count + 1 ]_vars

\* the loop used every retry of max_retries = 2 and returned from its body
C39_Witness ==
    /\ c_pc = "returned"
    /\ c_exit = "exhausted"
    /\ c_args.max_retries = 2
    /\ retry_count = 2
    /\ c_calls = 3

\* with max_retries = -1 the loop body never runs and the code after the
\* loop is reached
C39_WitnessNegative ==
    /\ c_exit = "unexpected"
    /\ c_args.max_retries = -1
    /\ c_calls = 0

(***************************************************************************)
(* Properties of the daily run and the announcement ledger (Spec).         *)
(***************************************************************************)
MarkerCount(lines, user_id) == Cardinality({k \in 1..Len(lines) : lines[k] = user_id})

RunEnded == d_pc \in {"done", "raised"}

\* C1: when the runs on the day of the clock were whole runs for that day, the
\* store is unchanged and no lookup, delivery, read, write or cleanup failed,
\* then after any such run each subject whose birthday is that day has exactly
\* one delivered announcement and exactly one marker in the file of the day.
C1_ExactlyOnePerDay ==
    (RunEnded /\ day_runs = "clean") =>
        \A k \in 1..Len(birthdays) :
            check_if_birthday_today(birthdays[k].date, DayDate(today)) =>
                /\ delivered_today[birthdays[k].user] = 1
                /\ MarkerCount(tracking[today].lines, birthdays[k].user) = 1

\* C3: every subject with a marker in the file of the day had a delivery that
\* went through on that day.
C3_MarkerOnlyAfterDelivery ==
    \A u \in Range(tracking[today].lines) : delivered_today[u] >= 1

\* C4: when a run has ended and the username lookup did not raise, every
\* subject that comes after a subject with a failed delivery, has its
\* birthday on the day of moment and is not in already_announced had a
\* delivery attempt in that run.
C4_LaterSubjectsAttempted ==
    (RunEnded /\ raise_cause # "lookup") =>
        \A i \in 1..Len(loaded), j \in 1..Len(loaded) :
            ( /\ i < j
              /\ loaded[i].user \in run_failed
              /\ check_if_birthday_today(loaded[j].date, DayDate(moment))
              /\ loaded[j].user \notin Range(already_announced) )
            => loaded[j].user \in run_attempted

\* C5: no run ends by an exception raised out of the date words, the
\* composition, the delivery or the ledger (a failed username lookup is not
\* among the failures in question).
C5_RunNeverRaises == (d_pc = "raised") => (raise_cause = "lookup")

C14_Feb29NeverRaises == raise_cause # "date_to_words"

\* C16: every ledger call of a run (cleanup, reading the announced list,
\* writing a marker) works on the file of the day of moment.
C16_LedgerDayIsMomentDay == (ledger_day # 0) => (ledger_day = moment)

\* C18: a failed read of the marker file of the day gives the empty list, a
\* failed write leaves the tracking directory as it was, and in both cases
\* the run goes on with the scan (after a failed write, with the next
\* subject).
C18_LedgerFailuresAbsorbed ==
    [][ /\ (last_fault' = "read_failed") =>
              (already_announced' = <<>> /\ d_pc' = "scan")
        /\ (last_fault' = "write_failed") =>
              (tracking' = tracking /\ d_pc' = "scan" /\ idx' = idx + 1) ]_vars

\* the file of the day holds a marker and the read of it has just failed
C18_Witness ==
    /\ last_fault = "read_failed"
    /\ tracking[today].lines # <<>>
    /\ d_pc = "scan"

SkippedInRun == {k \in 1..Len(loaded) : loaded[k].user \in Range(already_announced)}

\* C19: the value a run returns is the number of subjects whose announcement
\* was posted in that run plus the number of subjects skipped for being in
\* the announced list read at the start of the run.
C19_ReturnCountsAnnounced ==
    (d_pc = "done") =>
        birthday_count = Cardinality(run_delivered) + Cardinality(SkippedInRun)

\* C23: in every run the cleanup is the first call and the reading of the
\* announced list the second; every announcement (compose, delivery) and
\* every marker write comes after both.
C23_CleanupThenReadThenScan ==
    \A k \in 1..Len(run_log) :
        /\ (run_log[k] = "cleanup") <=> (k = 1)
        /\ (run_log[k] = "read") <=> (k = 2)

\* a run that cleaned up, read the list, announced a subject and wrote its
\* marker
C23_Witness ==
    /\ d_pc = "done"
    /\ Len(run_log) >= 4
    /\ run_log[3] = "announce"
    /\ run_log[4] = "mark"

\* C31: a step of cleanup_old_announcement_files leaves the marker file of the
\* day of the clock as it was, lines included, leaves the birthday store as it
\* was, and the only change it makes is to delete marker files of other days.
C31_CleanupKeepsTodayAndStore ==
    [][(d_pc = "cleanup" /\ d_pc' = "read") =>
          /\ tracking'[today] = tracking[today]
          /\ birthdays' = birthdays
          /\ \A d \in Days : tracking'[d] # tracking[d] =>
                 (d # today /\ tracking[d].exists /\ tracking'[d] = NoFile)]_vars

\* cleanup has just run on a directory in which the file of the day holds
\* markers and a file of another day was deleted
C31_Witness ==
    /\ d_pc = "read"
    /\ ledger_day = today
    /\ tracking[today].exists
    /\ tracking[today].lines # <<>>
    /\ last_removed >= 1

(***************************************************************************)
(* Properties of concurrent runs (SpecConcurrent).                         *)
(***************************************************************************)
LogPositions(p, op, user_id) == {i \in 1..Len(k_log) : k_log[i] = Event(p, op, user_id)}

\* the instances that posted the announcement of the subject
DeliveredBy(user_id) == {p \in Instances : LogPositions(p, "deliver", user_id) # {}}

\* C25: two runs at once can post the announcement of one subject twice, and
\* when they do, each of them had read the announced list before the other
\* wrote its marker.
C25_TwiceOnlyWhenReadsPrecedeMarks ==
    \A u \in Users : \A p \in DeliveredBy(u), q \in DeliveredBy(u) :
        (p # q) =>
            \A i \in LogPositions(q, "read", None), j \in LogPositions(p, "mark", u) : i < j

\* both runs are over and one subject was announced by each of them
C25_Witness ==
    /\ \A p \in Instances : k_pc[p] = "done"
    /\ \E u \in Users :
          /\ DeliveredBy(u) = Instances
          /\ delivered_today[u] = 2
          /\ Cardinality({i \in 1..Len(tracking[today].lines) : tracking[today].lines[i] = u}) = 2

\* the subjects for whom a marker was written on the day of the clock
MarkedToday == {u \in Users : \E p \in Instances : LogPositions(p, "mark", u) # {}}

\* C27: however often a marker was written for a subject on a day, reading
\* the announced list gives the set of the subjects marked on that day.
C27_MarkIdempotentAtSetLevel ==
    Range(get_announced_birthdays_today(tracking, today, TRUE)) = MarkedToday

\* the marker of one subject was written twice and the marker of another
\* subject once
C27_Witness ==
    /\ \E u \in Users : \A p \in Instances : LogPositions(p, "mark", u) # {}
    /\ Cardinality(MarkedToday) = 2
    /\ Len(tracking[today].lines) = 3

(***************************************************************************)
(* Properties of the add command between runs (SpecCommands).              *)
(***************************************************************************)
\* C26: after the add command has posted the announcement of a subject, no
\* run of daily() posts the announcement of that subject on the same day.
C26_NoRunAnnouncesAfterAddCommand ==
    \A i \in 1..Len(k_log), j \in 1..Len(k_log) :
        ~ ( /\ i < j
            /\ k_log[i].proc = "command" /\ k_log[i].op = "deliver"
            /\ k_log[j].proc \in Instances /\ k_log[j].op = "deliver"
            /\ k_log[j].user = k_log[i].user
            /\ k_log[j].day = k_log[i].day )

\* C28: every subject a run has counted has its birthday, by the record the
\* run loaded, on the day of the run.
C28_CountedHaveBirthdayToday ==
    \A p \in Instances : \A i \in 1..Len(k_log) :
        (k_log[i].proc = p /\ k_log[i].op = "read") =>
            \A u \in k_counted[p] :
                \E k \in 1..Len(k_loaded[p]) :
                    /\ k_loaded[p][k].user = u
                    /\ check_if_birthday_today(k_loaded[p][k].date, DayDate(k_log[i].day))

====
